---- MODULE Spec2Model ----
(***************************************************************************)
(* Rolling quantile / median kernels of polars-arrow                       *)
(* (legacy/kernels/rolling/quantile_filter.rs and median_filter.rs).       *)
(*                                                                         *)
(* Arrays of the code are TLA+ sequences; the code indexes from 0, so      *)
(* At(a, i) reads a[i] of the code and Upd(a, i, v) writes it.             *)
(*                                                                         *)
(* Element values: the element type T is either a float type or a signed   *)
(* integer type.  Input elements are drawn from Values, all multiples of   *)
(* QDen, and quantiles are the dyadic rationals qn / QDen, so that every   *)
(* f64 product (L-1)*q and every interpolation p*(vj-vi)+vi of the code is *)
(* exact and is computed here in integers.  NaN is one extra float value.  *)
(* Integer element arithmetic wraps at IntBits bits (two's complement),    *)
(* as the code's +, -, * do in a build without overflow checks.            *)
(***************************************************************************)
EXTENDS Integers, Sequences, FiniteSets, TLC

\* ---------------------------------------------------------------- bounds
\* longest input slice of a driver run
MaxLen == 6
\* largest window width passed to the driver
MaxK == 4
\* longest input slice of a run with NaN among the values
MaxNaNLen == 3
\* longest input slice of a call with an invalid argument
MaxBadLen == 3
\* largest block capacity in the Block scenario
MaxCap == 4
\* largest capacity of the two blocks in the BlockUnion scenario
MaxUnionCap == 3
\* width of the integer element type
IntBits == 4
\* largest block capacity in the runs of Block operations
MaxOpsCap == 3
\* longest sequence of advance and reverse calls looked at from one block
MaxMoves == 4
\* largest capacity of the two blocks in the runs of BlockUnion operations
MaxMergeCap == 3

\* denominator of the quantiles: quantile = qn / QDen
QDen == 4
\* the finite element values of the inputs (multiples of QDen)
Values == {-8, 0, 4}
\* the element values of the Block scenario
ScnValues == Values \cup {8}
\* the float NaN, encoded as a number outside Values
NaN == 99

At(a, i) == a[i + 1]
Upd(a, i, v) == [a EXCEPT ![i + 1] = v]

Min(a, b) == IF a <= b THEN a ELSE b

\* Vec::resize(n, 0): truncate, or pad with zeroes; old contents are kept
Resize(v, n) == [x \in 1..n |-> IF x <= Len(v) THEN v[x] ELSE 0]

\* slice[lo..hi] of the code (hi exclusive)
Slice(s, lo, hi) == SubSeq(s, lo + 1, hi)

\* ------------------------------------------------------------ comparisons
IsNaN(v) == v = NaN

\* PartialOrd::partial_cmp on T: None when either side is NaN
PartialCmp(a, b) ==
  IF IsNaN(a) \/ IsNaN(b) THEN "None"
  ELSE IF a < b THEN "Less"
  ELSE IF a > b THEN "Greater"
  ELSE "Equal"

\* partial_cmp on the pairs (T, u32) of get_pair: lexicographic
PairCmp(p, q) ==
  LET c == PartialCmp(p[1], q[1])
  IN IF c = "Equal"
     THEN (IF p[2] < q[2] THEN "Less" ELSE IF p[2] > q[2] THEN "Greater" ELSE "Equal")
     ELSE c

\* the order arg_sort_ascending sorts by: ascending value, NaN last, stable
SortBefore(alpha, x, y) ==
  LET a == At(alpha, x)
      b == At(alpha, y)
  IN IF IsNaN(a) /\ IsNaN(b) THEN x < y
     ELSE IF IsNaN(a) THEN FALSE
     ELSE IF IsNaN(b) THEN TRUE
     ELSE a < b \/ (a = b /\ x < y)

\* arg_sort_ascending(alpha, scratch): pi with alpha[pi[0]] <= alpha[pi[1]] <= ...
arg_sort_ascending(alpha) ==
  LET cap == Len(alpha)
      before(x) == Cardinality({y \in 0..(cap - 1) : SortBefore(alpha, y, x)})
  IN [r \in 1..cap |-> CHOOSE x \in 0..(cap - 1) : before(x) = r - 1]

\* ------------------------------------------------------------------ Block
\* A Block with the buffers it borrows: k, tail, n_element, alpha, pi, prev,
\* next, m, current_index.  panic is "none" until an operation aborts; an
\* aborted block is left as it is by every further operation.  The aborts:
\*   "unwrap_cmp"   partial_cmp(..).unwrap() on None (a NaN was compared)
\*   "unwrap_peek"  peek().unwrap() on None (the cursor is past-end)
\*   "index"        alpha[i] with i out of bounds
\*   "overflow"     a usize subtraction below zero
\*   "assert"       a debug assertion fails
\*   "panic"        the panic!() arm of BlockUnion::get
\*   "div_zero"     slice.len() / k with k = 0
Fail(b, why) == [b EXCEPT !.panic = why]

at_end(b) == b.m = b.tail

is_empty(b) == b.n_element = 0

capacity(b) == Len(b.alpha)

get_pair(b, i) == <<At(b.alpha, i), i>>

RECURSIVE InitLinksFrom(_, _, _)
\* the loop of init_links from the x-th entry of pi on: st = [p, prev, next]
InitLinksFrom(pi, x, st) ==
  IF x > Len(pi) THEN st
  ELSE LET q == pi[x]
       IN InitLinksFrom(pi, x + 1,
            [p |-> q, next |-> Upd(st.next, st.p, q), prev |-> Upd(st.prev, q, st.p)])

\* an init_links that does not close the chain at tail
InitLinksOpen(b) ==
  LET st == InitLinksFrom(b.pi, 1, [p |-> b.tail, prev |-> b.prev, next |-> b.next])
  IN [b EXCEPT !.prev = st.prev, !.next = st.next]

init_links(b) ==
  LET st == InitLinksFrom(b.pi, 1, [p |-> b.tail, prev |-> b.prev, next |-> b.next])
      nx == Upd(st.next, st.p, b.tail)
      pv == Upd(st.prev, b.tail, st.p)
  IN [b EXCEPT !.prev = pv, !.next = nx]

\* Block::new(alpha, scratch, prev, next): prev and next are recycled vectors
BlockNew(alpha, prev, next) ==
  LET cap == Len(alpha)
      pi == arg_sort_ascending(alpha)
      m_index == cap \div 2
  IN init_links([k |-> cap, pi |-> pi, prev |-> Resize(prev, cap + 1),
                 next |-> Resize(next, cap + 1), m |-> At(pi, m_index),
                 current_index |-> m_index, n_element |-> cap, tail |-> cap,
                 alpha |-> alpha, panic |-> "none"])

\* a delete_link that leaves the links as they are
DeleteLinkNothing(b, i) == b

\* a delete_link that also clears the two entries of the removed position
DeleteLinkClearing(b, i) ==
  LET nx == Upd(b.next, At(b.prev, i), At(b.next, i))
      pv == Upd(b.prev, At(nx, i), At(b.prev, i))
  IN [b EXCEPT !.next = Upd(nx, i, b.tail), !.prev = Upd(pv, i, b.tail)]

delete_link(b, i) ==
  LET nx == Upd(b.next, At(b.prev, i), At(b.next, i))
      pv == Upd(b.prev, At(nx, i), At(b.prev, i))
  IN [b EXCEPT !.next = nx, !.prev = pv]

\* an undelete_link that writes next and leaves prev as it is
UndeleteLinkNextOnly(b, i) == [b EXCEPT !.next = Upd(b.next, At(b.prev, i), i)]

\* an undelete_link that leaves the links as they are
UndeleteLinkNothing(b, i) == b

undelete_link(b, i) ==
  LET nx == Upd(b.next, At(b.prev, i), i)
      pv == Upd(b.prev, At(nx, i), i)
  IN [b EXCEPT !.next = nx, !.prev = pv]

RECURSIVE UnwindFrom(_, _)
\* the loop of unwind: delete_link(i) for i = x-1 down to 0
UnwindFrom(b, x) == IF x = 0 THEN b ELSE UnwindFrom(delete_link(b, x - 1), x - 1)

\* an unwind that empties the block and leaves the links as they are
UnwindKeepLinks(b) ==
  IF b.panic # "none" THEN b ELSE [b EXCEPT !.m = b.tail, !.n_element = 0]

unwind(b) ==
  IF b.panic # "none" THEN b
  ELSE [UnwindFrom(b, b.k) EXCEPT !.m = b.tail, !.n_element = 0]

RECURSIVE Walk(_, _, _)
\* follow the links f from m for steps steps
Walk(f, m, steps) == IF steps <= 0 THEN m ELSE Walk(f, At(f, m), steps - 1)

reverse(b) ==
  IF b.panic # "none" THEN b
  ELSE IF b.current_index > 0
  THEN [b EXCEPT !.current_index = b.current_index - 1, !.m = At(b.prev, b.m)]
  ELSE b

\* an advance that is not clamped at the past-end position
AdvanceUnclamped(b) ==
  IF b.panic # "none" THEN b
  ELSE [b EXCEPT !.current_index = b.current_index + 1, !.m = At(b.next, b.m)]

\* an advance that counts the step and leaves the cursor where it is
AdvanceKeepCursor(b) ==
  IF b.panic # "none" THEN b
  ELSE IF b.current_index < b.n_element
  THEN [b EXCEPT !.current_index = b.current_index + 1]
  ELSE b

advance(b) ==
  IF b.panic # "none" THEN b
  ELSE IF b.current_index < b.n_element
  THEN [b EXCEPT !.current_index = b.current_index + 1, !.m = At(b.next, b.m)]
  ELSE b

\* a reset that moves the cursor and keeps current_index
ResetKeepIndex(b) ==
  IF b.panic # "none" THEN b ELSE [b EXCEPT !.m = At(b.next, b.tail)]

\* a reset that also sets the element count to zero, as unwind does
ResetClearingCount(b) ==
  IF b.panic # "none" THEN b
  ELSE [b EXCEPT !.current_index = 0, !.m = At(b.next, b.tail), !.n_element = 0]

reset(b) ==
  IF b.panic # "none" THEN b
  ELSE [b EXCEPT !.current_index = 0, !.m = At(b.next, b.tail)]

\* a traverse_to_index that does not walk the cursor backwards
TraverseNoBackwardWalk(b, i) ==
  IF b.panic # "none" THEN b
  ELSE IF i >= b.current_index
  THEN [b EXCEPT !.m = Walk(b.next, b.m, i - b.current_index), !.current_index = i]
  ELSE [b EXCEPT !.current_index = i]

traverse_to_index(b, i) ==
  LET d == i - b.current_index
  IN IF b.panic # "none" THEN b
     ELSE IF d = 0 THEN b
     ELSE IF d = -1
     THEN [b EXCEPT !.current_index = b.current_index - 1, !.m = At(b.prev, b.m)]
     ELSE IF d = 1 THEN advance(b)
     ELSE IF d < 0
     THEN [b EXCEPT !.m = Walk(b.prev, b.m, b.current_index - i), !.current_index = i]
     ELSE [b EXCEPT !.m = Walk(b.next, b.m, i - b.current_index), !.current_index = i]

set_median(b) == traverse_to_index(b, b.n_element \div 2)

\* an Ordering::Equal arm that always moves the cursor to its successor
DeleteEqualToNext(b) == [b EXCEPT !.m = At(b.next, b.m)]

\* the Ordering::Equal arm of delete, after delete_link and n_element -= 1
DeleteEqual(b) ==
  IF b.n_element >= b.current_index
  THEN LET next_m == At(b.next, b.m)
       IN IF next_m = b.tail /\ b.n_element > 0
          THEN (IF b.current_index = 0 THEN Fail(b, "overflow")
                ELSE [b EXCEPT !.current_index = b.current_index - 1,
                               !.m = At(b.prev, b.m)])
          ELSE [b EXCEPT !.m = At(b.next, b.m)]
  ELSE [b EXCEPT !.m = At(b.prev, b.m)]

\* delete without the cursor-rank shift of the Ordering::Less arm
DeleteNoShift(b0, i) ==
  IF b0.panic # "none" THEN b0
  ELSE
    LET b == IF at_end(b0) THEN reverse(b0) ELSE b0
        c == PairCmp(get_pair(b, i), get_pair(b, b.m))
        b1 == [delete_link(b, i) EXCEPT !.n_element = b.n_element - 1]
    IN IF c = "Equal" THEN DeleteEqual(b1) ELSE b1

delete(b0, i) ==
  IF b0.panic # "none" THEN b0
  ELSE
    LET b == IF at_end(b0) THEN reverse(b0) ELSE b0
    IN IF i >= Len(b.alpha) \/ b.m >= Len(b.alpha) THEN Fail(b, "index")
       ELSE IF b.n_element = 0 THEN Fail(delete_link(b, i), "overflow")
       ELSE
         LET c == PairCmp(get_pair(b, i), get_pair(b, b.m))
             b1 == [delete_link(b, i) EXCEPT !.n_element = b.n_element - 1]
         IN IF c = "None" THEN Fail(b1, "unwrap_cmp")
            ELSE IF c = "Less"
            THEN (IF b1.current_index = 0 THEN Fail(b1, "overflow")
                  ELSE [b1 EXCEPT !.current_index = b1.current_index - 1])
            ELSE IF c = "Greater" THEN b1
            ELSE DeleteEqual(b1)

\* undelete without the cursor-rank shift of the Ordering::Less arm
UndeleteNoShift(b0, i) ==
  IF b0.panic # "none" THEN b0
  ELSE
    LET b == IF ~is_empty(b0) /\ at_end(b0) THEN reverse(b0) ELSE b0
        b1 == undelete_link(b, i)
    IN IF is_empty(b1)
       THEN [b1 EXCEPT !.m = At(b1.prev, b1.m), !.n_element = 1, !.current_index = 0]
       ELSE [b1 EXCEPT !.n_element = b1.n_element + 1]

\* an undelete that leaves the cursor of an empty block where it is
UndeleteKeepCursor(b0, i) ==
  LET a == UndeleteNoShift(b0, i)
  IN IF b0.panic = "none" /\ is_empty(b0) THEN [a EXCEPT !.m = b0.m] ELSE a

undelete(b0, i) ==
  IF b0.panic # "none" THEN b0
  ELSE
    LET b == IF ~is_empty(b0) /\ at_end(b0) THEN reverse(b0) ELSE b0
        b1 == undelete_link(b, i)
    IN IF is_empty(b1)
       THEN [b1 EXCEPT !.m = At(b1.prev, b1.m), !.n_element = 1, !.current_index = 0]
       ELSE IF i >= Len(b.alpha) \/ b.m >= Len(b.alpha) THEN Fail(b1, "index")
       ELSE
         LET c == PairCmp(get_pair(b1, i), get_pair(b1, b1.m))
             b2 == [b1 EXCEPT !.n_element = b1.n_element + 1]
         IN IF c = "None" THEN Fail(b2, "unwrap_cmp")
            ELSE IF c = "Less"
            THEN [b2 EXCEPT !.current_index = b2.current_index + 1]
            ELSE b2

delete_set_median(b, i) == set_median(delete(b, i))

undelete_set_median(b, i) == set_median(undelete(b, i))

\* Option<T>: <<>> is None, <<v>> is Some(v)
peek(b) == IF at_end(b) THEN <<>> ELSE <<At(b.alpha, b.m)>>

\* a peek_previous that reads the element under the cursor
PeekPreviousAtCursor(b) == IF at_end(b) THEN <<>> ELSE <<At(b.alpha, b.m)>>

peek_previous(b) ==
  LET m == At(b.prev, b.m)
  IN IF m = b.tail THEN <<>> ELSE <<At(b.alpha, m)>>

\* LenGet for &mut Block: get returns the block after the cursor move and the
\* value read; unwrap of None aborts
PeekUnwrap(b) ==
  IF b.panic # "none" THEN [inner |-> b, val |-> 0]
  ELSE IF peek(b) = <<>> THEN [inner |-> Fail(b, "unwrap_peek"), val |-> 0]
  ELSE [inner |-> b, val |-> peek(b)[1]]

BlockGet(b, i) == PeekUnwrap(traverse_to_index(b, i))

\* ------------------------------------------------------------- BlockUnion
\* BlockUnion borrows two Blocks; panic records an abort of a union operation
\* or of a block operation made through the union.
UFail(u, why) == [u EXCEPT !.panic = why]

UnionLen(u) == u.block_left.n_element + u.block_right.n_element

\* BlockUnion::new(block_left, block_right, k) with its debug_assert_eq
BlockUnionNew(left, right, k) ==
  LET u == [block_left |-> left, block_right |-> right, panic |-> "none"]
  IN IF UnionLen(u) # k THEN UFail(u, "assert") ELSE u

\* carry a block's abort over to the union that made the call
Lift(u) ==
  IF u.panic # "none" THEN u
  ELSE IF u.block_left.panic # "none" THEN UFail(u, u.block_left.panic)
  ELSE IF u.block_right.panic # "none" THEN UFail(u, u.block_right.panic)
  ELSE u

\* a set_state that adds nothing to the right block
SetStateRightNothing(u, i) == u

\* the second call of set_state: block_right.undelete(i)
SetStateRight(u, i) ==
  IF u.panic # "none" THEN u
  ELSE Lift([u EXCEPT !.block_right = undelete(u.block_right, i)])

set_state(u, i) ==
  IF u.panic # "none" THEN u
  ELSE SetStateRight(Lift([u EXCEPT !.block_left = delete(u.block_left, i)]), i)

\* a reverse that never steps a cursor back
UnionReverseNothing(u) == u

\* a reverse that steps the left cursor back when the two previous values
\* are equal
UnionReverseLeftOnTie(u) ==
  LET left == peek_previous(u.block_left)
      right == peek_previous(u.block_right)
  IN IF u.panic # "none" THEN u
     ELSE IF left # <<>> /\ (right = <<>> \/ left[1] >= right[1])
     THEN [u EXCEPT !.block_left = reverse(u.block_left)]
     ELSE IF right # <<>>
     THEN [u EXCEPT !.block_right = reverse(u.block_right)]
     ELSE u

UnionReverse(u) ==
  LET left == peek_previous(u.block_left)
      right == peek_previous(u.block_right)
  IN IF u.panic # "none" THEN u
     ELSE IF left # <<>> /\ right = <<>>
     THEN [u EXCEPT !.block_left = reverse(u.block_left)]
     ELSE IF left = <<>> /\ right # <<>>
     THEN [u EXCEPT !.block_right = reverse(u.block_right)]
     ELSE IF left # <<>> /\ right # <<>>
     THEN LET c == PartialCmp(left[1], right[1])
          IN IF c = "None" THEN UFail(u, "unwrap_cmp")
             ELSE IF c \in {"Equal", "Less"}
             THEN [u EXCEPT !.block_right = reverse(u.block_right)]
             ELSE [u EXCEPT !.block_left = reverse(u.block_left)]
     ELSE u

RECURSIVE UnionGetLoopRightOnTie(_, _)
\* a loop of BlockUnion::get that takes the right element when the values
\* under the cursors are equal
UnionGetLoopRightOnTie(u, i) ==
  LET s == u.block_left.current_index + u.block_right.current_index
      left == peek(u.block_left)
      right == peek(u.block_right)
      takeLeft == IF s = i THEN [inner |-> u, val |-> left[1]]
                  ELSE UnionGetLoopRightOnTie([u EXCEPT !.block_left = advance(u.block_left)], i)
      takeRight == IF s = i THEN [inner |-> u, val |-> right[1]]
                   ELSE UnionGetLoopRightOnTie([u EXCEPT !.block_right = advance(u.block_right)], i)
  IN IF u.panic # "none" THEN [inner |-> u, val |-> 0]
     ELSE IF i < s THEN [inner |-> UFail(u, "assert"), val |-> 0]
     ELSE IF left # <<>> /\ right = <<>> THEN takeLeft
     ELSE IF left = <<>> /\ right # <<>> THEN takeRight
     ELSE IF left # <<>> /\ right # <<>>
     THEN LET c == PartialCmp(left[1], right[1])
          IN IF c = "None" THEN [inner |-> UFail(u, "unwrap_cmp"), val |-> 0]
             ELSE IF c = "Less" THEN takeLeft
             ELSE takeRight
     ELSE [inner |-> UFail(u, "panic"), val |-> 0]

RECURSIVE UnionGetLoop(_, _)
\* the loop of BlockUnion::get.  The debug assertion i >= s aborts at once;
\* without debug assertions the loop goes on with s > i, s grows by one per
\* iteration and the run aborts at the panic!() arm, so both builds abort.
UnionGetLoop(u, i) ==
  LET s == u.block_left.current_index + u.block_right.current_index
      left == peek(u.block_left)
      right == peek(u.block_right)
      takeLeft == IF s = i THEN [inner |-> u, val |-> left[1]]
                  ELSE UnionGetLoop([u EXCEPT !.block_left = advance(u.block_left)], i)
      takeRight == IF s = i THEN [inner |-> u, val |-> right[1]]
                   ELSE UnionGetLoop([u EXCEPT !.block_right = advance(u.block_right)], i)
  IN IF u.panic # "none" THEN [inner |-> u, val |-> 0]
     ELSE IF i < s THEN [inner |-> UFail(u, "assert"), val |-> 0]
     ELSE IF left # <<>> /\ right = <<>> THEN takeLeft
     ELSE IF left = <<>> /\ right # <<>> THEN takeRight
     ELSE IF left # <<>> /\ right # <<>>
     THEN LET c == PartialCmp(left[1], right[1])
          IN IF c = "None" THEN [inner |-> UFail(u, "unwrap_cmp"), val |-> 0]
             ELSE IF c \in {"Equal", "Less"} THEN takeLeft
             ELSE takeRight
     ELSE [inner |-> UFail(u, "panic"), val |-> 0]

\* the result g of a get of the left (right) block, as a result of the union
ThroughLeft(u, g) ==
  [inner |-> Lift([u EXCEPT !.block_left = g.inner]), val |-> g.val]

ThroughRight(u, g) ==
  [inner |-> Lift([u EXCEPT !.block_right = g.inner]), val |-> g.val]

\* a get that advances the left cursor once more after the loop has returned
UnionGetAdvancing(u, i) ==
  IF u.panic # "none" THEN [inner |-> u, val |-> 0]
  ELSE IF u.block_right.n_element = 0
  THEN ThroughLeft(u, BlockGet(u.block_left, i))
  ELSE IF u.block_left.n_element = 0
  THEN ThroughRight(u, BlockGet(u.block_right, i))
  ELSE LET g == UnionGetLoop(UnionReverse(u), i)
       IN [g EXCEPT !.inner.block_left = advance(g.inner.block_left)]

\* LenGet for BlockUnion: get
UnionGet(u, i) ==
  IF u.panic # "none" THEN [inner |-> u, val |-> 0]
  ELSE IF u.block_right.n_element = 0
  THEN ThroughLeft(u, BlockGet(u.block_left, i))
  ELSE IF u.block_left.n_element = 0
  THEN ThroughRight(u, BlockGet(u.block_right, i))
  ELSE UnionGetLoop(UnionReverse(u), i)

\* what stands for the number of advance calls of a loop that has no end
NoEnd == 99

RECURSIVE LoopAdvances(_, _, _)
\* the number of advance calls that the loop of BlockUnion::get makes before
\* it returns or aborts.  With debug assertions the loop aborts as soon as
\* i < s; without them it goes on until both cursors are past-end and ends in
\* the panic!() arm.
LoopAdvances(u, i, debug) ==
  LET s == u.block_left.current_index + u.block_right.current_index
      left == peek(u.block_left)
      right == peek(u.block_right)
      viaLeft == IF s = i THEN 0
                 ELSE IF advance(u.block_left) = u.block_left THEN NoEnd
                 ELSE 1 + LoopAdvances([u EXCEPT !.block_left = advance(u.block_left)], i, debug)
      viaRight == IF s = i THEN 0
                  ELSE IF advance(u.block_right) = u.block_right THEN NoEnd
                  ELSE 1 + LoopAdvances([u EXCEPT !.block_right = advance(u.block_right)], i, debug)
  IN IF u.panic # "none" THEN 0
     ELSE IF debug /\ i < s THEN 0
     ELSE IF left # <<>> /\ right = <<>> THEN viaLeft
     ELSE IF left = <<>> /\ right # <<>> THEN viaRight
     ELSE IF left # <<>> /\ right # <<>>
     THEN LET c == PartialCmp(left[1], right[1])
          IN IF c = "None" THEN 0
             ELSE IF c \in {"Equal", "Less"} THEN viaLeft
             ELSE viaRight
     ELSE 0

\* the number of advance calls of BlockUnion::get(i): traverse_to_index
\* calls advance once when the target is one position ahead
GetAdvances(u, i, debug) ==
  IF u.panic # "none" THEN 0
  ELSE IF u.block_right.n_element = 0
  THEN (IF i - u.block_left.current_index = 1 THEN 1 ELSE 0)
  ELSE IF u.block_left.n_element = 0
  THEN (IF i - u.block_right.current_index = 1 THEN 1 ELSE 0)
  ELSE LoopAdvances(UnionReverse(u), i, debug)

\* --------------------------------------------------------- QuantileUpdate
\* two's complement wrap of an integer element value to IntBits bits
Wrap(v) ==
  LET w == 2 ^ IntBits
      r == v % w
  IN IF r >= w \div 2 THEN r - w ELSE r

\* f64 -> usize cast of floor / ceil of num / QDen: negative saturates to 0
FloorIdx(num) == IF num < 0 THEN 0 ELSE num \div QDen

CeilIdx(num) == IF num < 0 THEN 0 ELSE (num + QDen - 1) \div QDen

\* proportion * (vj - vi) + vi in the element type, proportion = pnum / QDen
\* (float_idx_top - idx).  An integer type casts the proportion to 0 when it
\* is below 1; a float keeps it, and NaN operands give NaN.
Interpolate(is_int_t, pnum, vi, vj) ==
  IF is_int_t
  THEN Wrap(Wrap((pnum \div QDen) * Wrap(vj - vi)) + vi)
  ELSE IF IsNaN(vi) \/ IsNaN(vj) THEN NaN
  ELSE (pnum * (vj - vi)) \div QDen + vi

\* the LenGet trait: inner is a Block (impl for &mut Block) or a BlockUnion
IsUnion(inner) == "block_left" \in DOMAIN inner

LenGetLen(inner) == IF IsUnion(inner) THEN UnionLen(inner) ELSE inner.n_element

LenGetGet(inner, i) == IF IsUnion(inner) THEN UnionGet(inner, i) ELSE BlockGet(inner, i)

\* the end of quantile() and of median(): gi is get(idx), gj is get(top_idx),
\* pnum / QDen the proportion
Between(gi, gj, is_int_t, pnum) ==
  IF gj.inner.panic # "none" THEN gj
  ELSE [inner |-> gj.inner, val |-> Interpolate(is_int_t, pnum, gi.val, gj.val)]

\* quantile() from its first get on: with idx = top_idx that get is the result
QuantileFrom(gi, idx, top_idx, is_int_t, pnum) ==
  IF idx = top_idx \/ gi.inner.panic # "none" THEN gi
  ELSE Between(gi, LenGetGet(gi.inner, top_idx), is_int_t, pnum)

\* QuantileUpdate::quantile over a LenGet; qn / QDen is the quantile.
\* Returns the inner view after the calls and the value.
Quantile(inner, is_int_t, qn) ==
  LET num == (LenGetLen(inner) - 1) * qn
      idx == FloorIdx(num)
      top_idx == CeilIdx(num)
  IN QuantileFrom(LenGetGet(inner, idx), idx, top_idx, is_int_t, num - idx * QDen)

\* ------------------------------------------------------- rolling_quantile
\* The driver, one loop iteration per step.
\*   slice, k_arg, quantile, is_int   the call: rolling_quantile::<T>(k, slice, q),
\*                                    q = quantile / QDen, T integral iff is_int
\*   k_eff, n_blocks                  the locals k (after the clamp) and n_blocks
\*   bufs                             the two buffer triples (scratch, prev, next)
\*   block_left, block_right          the two Block values; buf names the triple
\*                                    whose vectors the block borrows
\*   vec_out                          the local out
\*   blk_i, blk_j                     the loop counters i and j
\*   pc, panic                        where the call is, and why it aborted
\*   rank                             the rank asked of the union in the
\*                                    BlockUnion scenario
\*   med_out, med_panic               the local out of rolling_median, and why
\*                                    rolling_median aborted
\*   removed, in_order               in the runs of Block operations: the
\*                                    positions deleted and not undeleted since,
\*                                    oldest first, and whether every undelete
\*                                    so far took the position deleted last and
\*                                    every unwind was made on a full block
\*   start_ca, end_ca                 in the calls of time_ranges: the two
\*                                    inputs as Int64Chunked (start, end)
\*   start_end_iter, builder          the pairs time_ranges_impl has still to
\*                                    read, and the rows its builder holds
\*   range_out                        the PolarsResult of time_ranges
VARIABLES slice, k_arg, quantile, is_int, k_eff, n_blocks, bufs,
          block_left, block_right, vec_out, blk_i, blk_j, pc, panic, rank,
          med_out, med_panic, removed, in_order,
          start_ca, end_ca, start_end_iter, builder, range_out

vars == <<slice, k_arg, quantile, is_int, k_eff, n_blocks, bufs,
          block_left, block_right, vec_out, blk_i, blk_j, pc, panic, rank,
          med_out, med_panic, removed, in_order,
          start_ca, end_ca, start_end_iter, builder, range_out>>

\* the variables of time_ranges alone
range_vars == <<start_ca, end_ca, start_end_iter, builder, range_out>>

\* a PolarsResult<Series> that no call has returned yet
NoResult == [kind |-> "none", rows |-> <<>>, len_start |-> 0, len_end |-> 0]

\* time_ranges is not called
RangeUnused ==
  /\ start_ca = <<>>
  /\ end_ca = <<>>
  /\ start_end_iter = <<>>
  /\ builder = <<>>
  /\ range_out = NoResult

\* the variables of rolling_median alone
med_vars == <<med_out, med_panic>>

\* the variables of the runs of Block operations alone
ops_vars == <<removed, in_order>>

\* the variables rolling_quantile does not use
other_vars == <<rank, med_vars, ops_vars>>

\* the sequences over S of length lo..hi
SeqsOf(S, lo, hi) == UNION {[1..len -> S] : len \in lo..hi}

EmptyTriple == [scratch |-> <<>>, prev |-> <<>>, next |-> <<>>]

\* a Block variable before its Block::new
NoBlock == [k |-> 0, tail |-> 0, n_element |-> 0, alpha |-> <<>>, m |-> 0,
            current_index |-> 0, buf |-> "left"]

\* the Block value blk together with the vectors it borrows from bfs
View(blk, bfs) ==
  [k |-> blk.k, tail |-> blk.tail, n_element |-> blk.n_element, alpha |-> blk.alpha,
   pi |-> bfs[blk.buf].scratch, prev |-> bfs[blk.buf].prev, next |-> bfs[blk.buf].next,
   m |-> blk.m, current_index |-> blk.current_index, panic |-> "none"]

\* the Block value of b, borrowing triple id
Handle(b, id) ==
  [k |-> b.k, tail |-> b.tail, n_element |-> b.n_element, alpha |-> b.alpha,
   m |-> b.m, current_index |-> b.current_index, buf |-> id]

\* the triples after b, which borrows triple id, has written its vectors
Store(bfs, id, b) ==
  [bfs EXCEPT ![id] = [scratch |-> b.pi, prev |-> b.prev, next |-> b.next]]

\* Block::new over triple id of bfs
NewOn(alpha, bfs, id) == BlockNew(alpha, bfs[id].prev, bfs[id].next)

\* a push that puts the new output in front of the earlier ones
PushFront(vec, v) == <<v>> \o vec

\* out.push(v)
Push(vec, v) == Append(vec, v)

InitCall(S, K, Q, T) ==
  /\ slice \in S
  /\ k_arg \in K
  /\ quantile \in Q
  /\ is_int \in T
  /\ k_eff = 0
  /\ n_blocks = 0
  /\ bufs = [left |-> EmptyTriple, right |-> EmptyTriple]
  /\ block_left = NoBlock
  /\ block_right = NoBlock
  /\ vec_out = <<>>
  /\ blk_i = 0
  /\ blk_j = 0
  /\ pc = "start"
  /\ panic = "none"
  /\ rank = 0
  /\ med_out = <<>>
  /\ med_panic = "none"
  /\ RangeUnused
  /\ removed = <<>>
  /\ in_order = TRUE

\* valid calls on a float element type
Init == InitCall(SeqsOf(Values, 1, MaxLen), 1..MaxK, 0..QDen, {FALSE})

Abort(why) ==
  /\ pc' = "panic"
  /\ panic' = why
  /\ UNCHANGED <<range_vars, slice, k_arg, quantile, is_int, k_eff, n_blocks, bufs,
                 block_left, block_right, vec_out, blk_i, blk_j>>
  /\ UNCHANGED other_vars

\* lines 505-547: the clamp, n_blocks, the two Block::new, block_left.unwind()
Start ==
  /\ pc = "start"
  /\ LET kc == Min(k_arg, Len(slice))
     IN IF kc = 0 THEN Abort("div_zero")
        ELSE \E bl \in {unwind(NewOn(Slice(slice, 0, kc), bufs, "left"))},
                br \in {NewOn(Slice(Slice(slice, 0, kc), 0, 1), bufs, "right")} :
                /\ k_eff' = kc
                /\ n_blocks' = Len(slice) \div kc
                /\ bufs' = Store(Store(bufs, "left", bl), "right", br)
                /\ block_left' = Handle(bl, "left")
                /\ block_right' = Handle(br, "right")
                /\ blk_i' = 0
                /\ pc' = "warmup"
                /\ UNCHANGED <<range_vars, slice, k_arg, quantile, is_int, vec_out, blk_j, panic>>
                /\ UNCHANGED other_vars

\* lines 549-554: one iteration of the warm-up loop
Warmup ==
  /\ pc = "warmup"
  /\ blk_i < Len(block_left.alpha)
  /\ \E g \in {Quantile(undelete(View(block_left, bufs), blk_i), is_int, quantile)} :
        IF g.inner.panic # "none" THEN Abort(g.inner.panic)
        ELSE /\ bufs' = Store(bufs, block_left.buf, g.inner)
             /\ block_left' = Handle(g.inner, block_left.buf)
             /\ vec_out' = Push(vec_out, g.val)
             /\ IF blk_i + 1 < Len(block_left.alpha)
                THEN blk_i' = blk_i + 1 /\ pc' = "warmup"
                ELSE blk_i' = 1 /\ pc' = "blocks"
             /\ UNCHANGED <<range_vars, slice, k_arg, quantile, is_int, k_eff, n_blocks,
                            block_right, blk_j, panic>>
             /\ UNCHANGED other_vars

\* the slice of the block the outer loop is at: slice[i * k..end]
BlockAlpha ==
  LET end == Min((blk_i + 1) * k_eff, Len(slice))
  IN Slice(slice, blk_i * k_eff, end)

\* the outer loop goes on: i is in 1..n_blocks + 1 and alpha is not empty
MoreBlocks == blk_i < n_blocks + 1 /\ BlockAlpha # <<>>

\* a choice of the triple with the two parities exchanged
TripleOfSwapped(x) == IF x % 2 = 0 THEN "right" ELSE "left"

\* the triple the new right block is built on (lines 573-577)
TripleOf(x) == IF x % 2 = 0 THEN "left" ELSE "right"

\* lines 555-582: the head of an outer iteration, up to block_right.unwind()
BlockStart ==
  /\ pc = "blocks"
  /\ MoreBlocks
  /\ IF block_left.n_element # k_eff THEN Abort("assert")
     ELSE \E id \in {TripleOf(blk_i)} :
          \E br \in {unwind(NewOn(BlockAlpha, bufs, id))} :
             /\ bufs' = Store(bufs, id, br)
             /\ block_right' = Handle(br, id)
             /\ blk_j' = 0
             /\ pc' = "slide"
             /\ UNCHANGED <<range_vars, slice, k_arg, quantile, is_int, k_eff, n_blocks,
                            block_left, vec_out, blk_i, panic>>
             /\ UNCHANGED other_vars

\* the call aborts in the inner loop: the two blocks stay as the union's
\* operations have left them
AbortSlide(u) ==
  /\ pc' = "panic"
  /\ panic' = u.panic
  /\ bufs' = Store(Store(bufs, block_left.buf, u.block_left),
                   block_right.buf, u.block_right)
  /\ block_left' = Handle(u.block_left, block_left.buf)
  /\ block_right' = Handle(u.block_right, block_right.buf)
  /\ UNCHANGED <<range_vars, slice, k_arg, quantile, is_int, k_eff, n_blocks, vec_out,
                 blk_i, blk_j>>
  /\ UNCHANGED other_vars

\* lines 585-594: one iteration of the inner loop; the last one of a block is
\* followed by the swap of block_left and block_right.  The two blocks borrow
\* different triples here, so each one's vectors are written back to its own.
SlideStep ==
  /\ pc = "slide"
  /\ blk_j < Len(block_right.alpha)
  /\ \E g \in {Quantile(set_state(BlockUnionNew(View(block_left, bufs),
                                                   View(block_right, bufs), k_eff),
                                     blk_j),
                           is_int, quantile)} :
     LET nl == Handle(g.inner.block_left, block_left.buf)
         nr == Handle(g.inner.block_right, block_right.buf)
     IN IF g.inner.panic # "none" THEN AbortSlide(g.inner)
        ELSE /\ bufs' = Store(Store(bufs, block_left.buf, g.inner.block_left),
                              block_right.buf, g.inner.block_right)
             /\ vec_out' = Push(vec_out, g.val)
             /\ IF blk_j + 1 < Len(block_right.alpha)
                THEN /\ block_left' = nl
                     /\ block_right' = nr
                     /\ blk_j' = blk_j + 1
                     /\ pc' = "slide"
                     /\ blk_i' = blk_i
                ELSE /\ block_left' = nr
                     /\ block_right' = nl
                     /\ blk_j' = blk_j + 1
                     /\ pc' = "blocks"
                     /\ blk_i' = blk_i + 1
             /\ UNCHANGED <<range_vars, slice, k_arg, quantile, is_int, k_eff, n_blocks, panic>>
             /\ UNCHANGED other_vars

\* lines 555-570 and 596: the outer loop has ended, at the end of its range or
\* at the break on an empty alpha, which comes after the assertion of the
\* iteration; out is returned
Return ==
  /\ pc = "blocks"
  /\ ~MoreBlocks
  /\ IF blk_i < n_blocks + 1 /\ block_left.n_element # k_eff THEN Abort("assert")
     ELSE /\ pc' = "done"
          /\ UNCHANGED <<range_vars, slice, k_arg, quantile, is_int, k_eff, n_blocks, bufs,
                         block_left, block_right, vec_out, blk_i, blk_j, panic>>
          /\ UNCHANGED other_vars

Next == Start \/ Warmup \/ BlockStart \/ SlideStep \/ Return

Spec == Init /\ [][Next]_vars

\* valid calls on an integer element type
InitInt == InitCall(SeqsOf(Values, 1, MaxLen), 1..MaxK, 0..QDen, {TRUE})

SpecInt == InitInt /\ [][Next]_vars

\* quantile numerators outside [0, 1]: -1/QDen and (QDen+1)/QDen
BadQuantiles == {-1, QDen + 1}

\* calls with an invalid argument: k < 1, an empty slice, or q outside [0, 1]
InitInvalid ==
  /\ InitCall(SeqsOf(Values, 0, MaxBadLen), 0..MaxBadLen,
              (0..QDen) \cup BadQuantiles, BOOLEAN)
  /\ (k_arg < 1 \/ slice = <<>> \/ quantile \in BadQuantiles)

SpecInvalid == InitInvalid /\ [][Next]_vars

\* calls on a float element type whose slice may hold NaN
InitNaN ==
  InitCall(SeqsOf(Values \cup {NaN}, 1, MaxNaNLen), 1..MaxNaNLen, 0..QDen, {FALSE})

SpecNaN == InitNaN /\ [][Next]_vars

\* ---------------------------------------------------------- median_filter
\* median_filter.rs has its own Block, BlockUnion and MedianUpdate.  Block::new,
\* init_links, delete_link, undelete_link, unwind, reset, at_end, peek and
\* get_pair are the same code as in quantile_filter.rs; the operations below
\* differ.  usize arithmetic that leaves the type's range aborts ("overflow").
MF_advance(b) ==
  IF b.panic # "none" THEN b
  ELSE [b EXCEPT !.current_index = b.current_index + 1, !.m = At(b.next, b.m)]

\* the arm for a difference below -1 subtracts i and walks over the empty
\* range i..0; the arm for a difference above 1 adds i and walks i links
MF_traverse_to_index(b, i) ==
  LET d == i - b.current_index
  IN IF b.panic # "none" THEN b
     ELSE IF d = 0 THEN b
     ELSE IF d = -1
     THEN [b EXCEPT !.current_index = b.current_index - 1, !.m = At(b.prev, b.m)]
     ELSE IF d = 1 THEN MF_advance(b)
     ELSE IF d < 0
     THEN [b EXCEPT !.current_index = b.current_index - i]
     ELSE [b EXCEPT !.current_index = b.current_index + i,
                    !.m = Walk(b.next, b.m, i)]

MF_delete(b, i) ==
  IF b.panic # "none" THEN b
  ELSE IF i >= Len(b.alpha) \/ b.m >= Len(b.alpha) THEN Fail(b, "index")
  ELSE IF b.n_element = 0 THEN Fail(delete_link(b, i), "overflow")
  ELSE
    LET c == PairCmp(get_pair(b, i), get_pair(b, b.m))
        b1 == [delete_link(b, i) EXCEPT !.n_element = b.n_element - 1]
    IN IF c = "None" THEN Fail(b1, "unwrap_cmp")
       ELSE IF c = "Less"
       THEN (IF b1.current_index = 0 THEN Fail(b1, "overflow")
             ELSE [b1 EXCEPT !.current_index = b1.current_index - 1])
       ELSE IF c = "Greater" THEN b1
       ELSE IF b1.n_element > b1.current_index
       THEN [b1 EXCEPT !.m = At(b1.next, b1.m)]
       ELSE [b1 EXCEPT !.m = At(b1.prev, b1.m)]

MF_undelete(b, i) ==
  IF b.panic # "none" THEN b
  ELSE
    LET b1 == undelete_link(b, i)
    IN IF at_end(b1)
       THEN [b1 EXCEPT !.m = At(b1.prev, b1.m), !.n_element = 1, !.current_index = 0]
       ELSE IF i >= Len(b.alpha) THEN Fail(b1, "index")
       ELSE
         LET c == PairCmp(get_pair(b1, i), get_pair(b1, b1.m))
             b2 == [b1 EXCEPT !.n_element = b1.n_element + 1]
         IN IF c = "None" THEN Fail(b2, "unwrap_cmp")
            ELSE IF c = "Less"
            THEN [b2 EXCEPT !.current_index = b2.current_index + 1]
            ELSE b2

\* LenGet for &mut Block
MF_BlockGet(b, i) == PeekUnwrap(MF_traverse_to_index(b, i))

\* BlockUnion::new with the field s and the debug_assert_eq
MF_BlockUnionNew(left, right, k) ==
  LET u == [block_left |-> left, block_right |-> right, s |-> 0, panic |-> "none"]
  IN IF UnionLen(u) # k THEN UFail(u, "assert") ELSE u

\* LenGet for BlockUnion: with an empty right block the left block's get;
\* else the smaller of the two values under the cursors, whose cursor advances
MF_UnionGet(u, i) ==
  IF u.panic # "none" THEN [inner |-> u, val |-> 0]
  ELSE IF u.block_right.n_element = 0
  THEN ThroughLeft(u, MF_BlockGet(u.block_left, i))
  ELSE IF i + 1 < u.s THEN [inner |-> UFail(u, "overflow"), val |-> 0]
  ELSE IF peek(u.block_left) = <<>> \/ peek(u.block_right) = <<>>
  THEN [inner |-> UFail(u, "unwrap_peek"), val |-> 0]
  ELSE
    LET left == peek(u.block_left)[1]
        right == peek(u.block_right)[1]
        c == PartialCmp(left, right)
    IN IF c = "None" THEN [inner |-> UFail(u, "unwrap_cmp"), val |-> 0]
       ELSE IF c \in {"Equal", "Less"}
       THEN [inner |-> [u EXCEPT !.block_left = MF_advance(u.block_left)], val |-> left]
       ELSE [inner |-> [u EXCEPT !.block_right = MF_advance(u.block_right)], val |-> right]

MF_LenGetGet(inner, i) ==
  IF IsUnion(inner) THEN MF_UnionGet(inner, i) ELSE MF_BlockGet(inner, i)

\* median() from its first get on
MF_MedianFrom(gi, idx, top_idx, is_int_t, pnum) ==
  IF idx = top_idx \/ gi.inner.panic # "none" THEN gi
  ELSE Between(gi, MF_LenGetGet(gi.inner, top_idx), is_int_t, pnum)

\* MedianUpdate::median over a LenGet: the quantile 0.5 = (QDen / 2) / QDen
MF_median(inner, is_int_t) ==
  LET num == (LenGetLen(inner) - 1) * (QDen \div 2)
      idx == FloorIdx(num)
      top_idx == CeilIdx(num)
  IN MF_MedianFrom(MF_LenGetGet(inner, idx), idx, top_idx, is_int_t, num - idx * QDen)

\* rolling_median(k, slice), one loop iteration per step, run after the
\* rolling_quantile call on the same k and slice has ended.  It uses the
\* variables of the driver for its own locals of the same names, and med_out
\* for its out.
MAbort(why) ==
  /\ pc' = "m_panic"
  /\ med_panic' = why
  /\ UNCHANGED <<range_vars, slice, k_arg, quantile, is_int, k_eff, n_blocks, bufs,
                 block_left, block_right, vec_out, blk_i, blk_j, panic, rank,
                 med_out, ops_vars>>

\* lines 418-446: the six vectors, the clamp, n_blocks, the two Block::new,
\* block_left.unwind()
MStart ==
  /\ pc \in {"done", "panic"}
  /\ LET kc == Min(k_arg, Len(slice))
         fresh == [left |-> EmptyTriple, right |-> EmptyTriple]
     IN IF kc = 0 THEN MAbort("div_zero")
        ELSE \E bl \in {unwind(NewOn(Slice(slice, 0, kc), fresh, "left"))},
                br \in {NewOn(Slice(Slice(slice, 0, kc), 0, 1), fresh, "right")} :
                /\ k_eff' = kc
                /\ n_blocks' = Len(slice) \div kc
                /\ bufs' = Store(Store(fresh, "left", bl), "right", br)
                /\ block_left' = Handle(bl, "left")
                /\ block_right' = Handle(br, "right")
                /\ blk_i' = 0
                /\ blk_j' = 0
                /\ pc' = "m_warmup"
                /\ UNCHANGED <<range_vars, slice, k_arg, quantile, is_int, vec_out, panic,
                               rank, med_vars, ops_vars>>

\* lines 448-453: one iteration of the warm-up loop
MWarmup ==
  /\ pc = "m_warmup"
  /\ blk_i < Len(block_left.alpha)
  /\ \E g \in {MF_median(MF_undelete(View(block_left, bufs), blk_i), is_int)} :
        IF g.inner.panic # "none" THEN MAbort(g.inner.panic)
        ELSE /\ bufs' = Store(bufs, block_left.buf, g.inner)
             /\ block_left' = Handle(g.inner, block_left.buf)
             /\ med_out' = Push(med_out, g.val)
             /\ IF blk_i + 1 < Len(block_left.alpha)
                THEN blk_i' = blk_i + 1 /\ pc' = "m_warmup"
                ELSE blk_i' = 1 /\ pc' = "m_blocks"
             /\ UNCHANGED <<range_vars, slice, k_arg, quantile, is_int, k_eff, n_blocks,
                            block_right, vec_out, blk_j, panic, rank, med_panic, ops_vars>>

\* lines 454-468: the head of an iteration of for i in 1..n_blocks, up to
\* block_right.unwind(); the new block is always built on the right vectors
MBlockStart ==
  /\ pc = "m_blocks"
  /\ blk_i < n_blocks
  /\ IF block_left.n_element # k_eff THEN MAbort("assert")
     ELSE \E br \in {unwind(NewOn(Slice(slice, blk_i * k_eff, (blk_i + 1) * k_eff),
                                     bufs, "right"))} :
             /\ bufs' = Store(bufs, "right", br)
             /\ block_right' = Handle(br, "right")
             /\ blk_j' = 0
             /\ pc' = "m_slide"
             /\ UNCHANGED <<range_vars, slice, k_arg, quantile, is_int, k_eff, n_blocks,
                            block_left, vec_out, blk_i, panic, rank, med_vars, ops_vars>>

\* lines 471-487: one iteration of the inner loop.  Each block reads and
\* writes the vectors it borrows at the time of its call; the last iteration
\* of a block is followed by the swap of the two Block values and of the
\* contents of the left and right vectors.
MSlideStep ==
  /\ pc = "m_slide"
  /\ blk_j < Len(block_right.alpha)
  /\ \E bl \in {MF_delete(View(block_left, bufs), blk_j)} :
     \E bufs1 \in {Store(bufs, block_left.buf, bl)} :
     \E br \in {MF_undelete(View(block_right, bufs1), blk_j)} :
     \E bufs2 \in {Store(bufs1, block_right.buf, br)} :
     \E g \in {MF_median(MF_BlockUnionNew(View(Handle(bl, block_left.buf), bufs2),
                                          View(Handle(br, block_right.buf), bufs2),
                                          k_eff),
                         is_int)} :
     LET nl == Handle(g.inner.block_left, block_left.buf)
         nr == Handle(g.inner.block_right, block_right.buf)
     IN IF bl.panic # "none" THEN MAbort(bl.panic)
        ELSE IF br.panic # "none" THEN MAbort(br.panic)
        ELSE IF g.inner.panic # "none" THEN MAbort(g.inner.panic)
        ELSE /\ med_out' = Push(med_out, g.val)
             /\ IF blk_j + 1 < Len(block_right.alpha)
                THEN /\ block_left' = nl
                     /\ block_right' = nr
                     /\ bufs' = bufs2
                     /\ blk_j' = blk_j + 1
                     /\ pc' = "m_slide"
                     /\ blk_i' = blk_i
                ELSE /\ block_left' = nr
                     /\ block_right' = nl
                     /\ bufs' = [left |-> bufs2.right, right |-> bufs2.left]
                     /\ blk_j' = blk_j + 1
                     /\ pc' = "m_blocks"
                     /\ blk_i' = blk_i + 1
             /\ UNCHANGED <<range_vars, slice, k_arg, quantile, is_int, k_eff, n_blocks,
                            vec_out, panic, rank, med_panic, ops_vars>>

\* line 489 on: the loop has ended; out is printed and the call returns ()
MReturn ==
  /\ pc = "m_blocks"
  /\ blk_i >= n_blocks
  /\ pc' = "m_done"
  /\ UNCHANGED <<range_vars, slice, k_arg, quantile, is_int, k_eff, n_blocks, bufs,
                 block_left, block_right, vec_out, blk_i, blk_j, panic, rank,
                 med_vars, ops_vars>>

\* rolling_quantile(k, slice, 0.5) and then rolling_median(k, slice), on a
\* float element type
InitMedian ==
  InitCall(SeqsOf(Values, 1, MaxLen), 1..MaxK, {QDen \div 2}, {FALSE})

NextMedian == Next \/ MStart \/ MWarmup \/ MBlockStart \/ MSlideStep \/ MReturn

SpecMedian == InitMedian /\ [][NextMedian]_vars

\* --------------------------------------------------------- Block scenario
\* The sequence of test_block_1 and test_block_2 over a block of any values:
\* Block::new, unwind, undelete_set_median(0), (1), ... and then
\* delete_set_median(0), (1), ... while an element remains.  slice is the
\* block's alpha, block_left the block, blk_i the next position.
InitBlockScenario ==
  /\ slice \in SeqsOf(ScnValues, 1, MaxCap)
  /\ k_arg = 0
  /\ quantile = 0
  /\ is_int = TRUE
  /\ k_eff = 0
  /\ n_blocks = 0
  /\ bufs = [left |-> EmptyTriple, right |-> EmptyTriple]
  /\ block_left = NoBlock
  /\ block_right = NoBlock
  /\ vec_out = <<>>
  /\ blk_i = 0
  /\ blk_j = 0
  /\ pc = "blk_new"
  /\ panic = "none"
  /\ rank = 0
  /\ med_out = <<>>
  /\ med_panic = "none"
  /\ RangeUnused
  /\ removed = <<>>
  /\ in_order = TRUE

\* a step of the scenario that leaves block b in block_left
ScnBlockStep(b, next_i, next_pc) ==
  IF b.panic # "none"
  THEN /\ pc' = "panic"
       /\ panic' = b.panic
       /\ UNCHANGED <<bufs, block_left, blk_i>>
  ELSE /\ bufs' = Store(bufs, "left", b)
       /\ block_left' = Handle(b, "left")
       /\ blk_i' = next_i
       /\ pc' = next_pc
       /\ panic' = panic

ScnFrame ==
  UNCHANGED <<range_vars, slice, k_arg, quantile, is_int, k_eff, n_blocks, block_right,
              vec_out, blk_j, rank, med_vars, ops_vars>>

ScnNew ==
  /\ pc = "blk_new"
  /\ ScnBlockStep(NewOn(slice, bufs, "left"), 0, "blk_unwind")
  /\ ScnFrame

ScnUnwind ==
  /\ pc = "blk_unwind"
  /\ ScnBlockStep(unwind(View(block_left, bufs)), 0, "blk_undelete")
  /\ ScnFrame

ScnUndeleteSetMedian ==
  /\ pc = "blk_undelete"
  /\ ScnBlockStep(undelete_set_median(View(block_left, bufs), blk_i),
                  IF blk_i + 1 < Len(slice) THEN blk_i + 1 ELSE 0,
                  IF blk_i + 1 < Len(slice) THEN "blk_undelete" ELSE "blk_delete")
  /\ ScnFrame

ScnDeleteSetMedian ==
  /\ pc = "blk_delete"
  /\ blk_i + 1 < Len(slice)
  /\ ScnBlockStep(delete_set_median(View(block_left, bufs), blk_i),
                  blk_i + 1, "blk_delete")
  /\ ScnFrame

NextBlockScenario == ScnNew \/ ScnUnwind \/ ScnUndeleteSetMedian \/ ScnDeleteSetMedian

SpecBlockScenario == InitBlockScenario /\ [][NextBlockScenario]_vars

\* ------------------------------------------------- runs of Block operations
\* Any sequence of the operations of a Block after its Block::new: unwind,
\* delete(i) of an active position, undelete(i) of an inactive position,
\* traverse_to_index(t) with t <= n_element, advance, reverse and reset.
\* slice is the block's alpha and block_left the block.  The prev and next
\* vectors handed to Block::new are recycled: empty, shorter or longer than
\* the block needs, with entries that are no link of the block.
StaleVecs ==
  {<<>>, <<MaxOpsCap + 1>>, [x \in 1..(MaxOpsCap + 2) |-> MaxOpsCap + 1]}

InitBlockOps ==
  /\ slice \in SeqsOf(Values, 1, MaxOpsCap)
  /\ k_arg = 0
  /\ quantile = 0
  /\ is_int = TRUE
  /\ k_eff = 0
  /\ n_blocks = 0
  /\ \E pv \in StaleVecs, nx \in StaleVecs :
        bufs = [left |-> [scratch |-> <<>>, prev |-> pv, next |-> nx],
                right |-> EmptyTriple]
  /\ block_left = NoBlock
  /\ block_right = NoBlock
  /\ vec_out = <<>>
  /\ blk_i = 0
  /\ blk_j = 0
  /\ pc = "ops_new"
  /\ panic = "none"
  /\ rank = 0
  /\ med_out = <<>>
  /\ med_panic = "none"
  /\ RangeUnused
  /\ removed = <<>>
  /\ in_order = TRUE

\* the positions of the block that are active
ActiveSet == {x \in 0..(Len(slice) - 1) : \A y \in DOMAIN removed : removed[y] # x}

\* the members of the set S of numbers, largest first
Descending(S) ==
  [x \in 1..Cardinality(S) |->
     CHOOSE v \in S : Cardinality({w \in S : w > v}) = x - 1]

\* seq without its x-th entry
Without(seq, x) == [y \in 1..(Len(seq) - 1) |-> IF y < x THEN seq[y] ELSE seq[y + 1]]

\* a step that leaves block b in block_left, rem in removed and ord in in_order
OpsStep(b, rem, ord) ==
  IF b.panic # "none"
  THEN /\ pc' = "panic"
       /\ panic' = b.panic
       /\ UNCHANGED <<bufs, block_left, removed, in_order>>
  ELSE /\ bufs' = Store(bufs, "left", b)
       /\ block_left' = Handle(b, "left")
       /\ removed' = rem
       /\ in_order' = ord
       /\ pc' = "ops"
       /\ panic' = panic

OpsFrame ==
  UNCHANGED <<range_vars, slice, k_arg, quantile, is_int, k_eff, n_blocks, block_right,
              vec_out, blk_i, blk_j, rank, med_vars>>

\* an operation can be made: the block is there, and its current_index has not
\* gone beyond the capacity (it can grow without limit once an undelete has
\* been made out of order; such a block is followed no further)
OpsReady == pc = "ops" /\ block_left.current_index <= Len(slice)

\* an operation on the links can be made: the runs follow a block through one
\* operation out of order (an undelete of a position other than the one
\* deleted last, an unwind of a block that is not full) and through the
\* cursor operations after it, not through further operations on the links
OpsLinksReady == OpsReady /\ in_order

OpsNew ==
  /\ pc = "ops_new"
  /\ OpsStep(NewOn(slice, bufs, "left"), <<>>, TRUE)
  /\ OpsFrame

OpsUnwind ==
  /\ OpsLinksReady
  /\ OpsStep(unwind(View(block_left, bufs)), removed \o Descending(ActiveSet),
             in_order /\ removed = <<>>)
  /\ OpsFrame

OpsDelete ==
  /\ OpsLinksReady
  /\ \E i \in ActiveSet :
        OpsStep(delete(View(block_left, bufs), i), Append(removed, i), in_order)
  /\ OpsFrame

OpsUndelete ==
  /\ OpsLinksReady
  /\ \E x \in DOMAIN removed :
        OpsStep(undelete(View(block_left, bufs), removed[x]), Without(removed, x),
                in_order /\ x = Len(removed))
  /\ OpsFrame

OpsTraverse ==
  /\ OpsReady
  /\ \E t \in 0..block_left.n_element :
        OpsStep(traverse_to_index(View(block_left, bufs), t), removed, in_order)
  /\ OpsFrame

OpsAdvance ==
  /\ OpsReady
  /\ OpsStep(advance(View(block_left, bufs)), removed, in_order)
  /\ OpsFrame

OpsReverse ==
  /\ OpsReady
  /\ OpsStep(reverse(View(block_left, bufs)), removed, in_order)
  /\ OpsFrame

OpsReset ==
  /\ OpsReady
  /\ OpsStep(reset(View(block_left, bufs)), removed, in_order)
  /\ OpsFrame

NextBlockOps ==
  \/ OpsNew
  \/ OpsUnwind
  \/ OpsDelete
  \/ OpsUndelete
  \/ OpsTraverse
  \/ OpsAdvance
  \/ OpsReverse
  \/ OpsReset

SpecBlockOps == InitBlockOps /\ [][NextBlockOps]_vars

\* ------------------------------------------------------------- round trips
\* The two round trips of a fresh Block over slice: Block::new, unwind and
\* undelete(0), (1), ..., (k-1); or Block::new, delete of every position in
\* any order p and undelete of every position in the reverse of p.  removed
\* holds the inactive positions as before, blk_i the next position of the
\* first round trip, and vec_out the order p of the deletes of the second.
InitRoundTrip ==
  /\ slice \in SeqsOf(Values, 1, MaxOpsCap)
  /\ k_arg = 0
  /\ quantile = 0
  /\ is_int = TRUE
  /\ k_eff = 0
  /\ n_blocks = 0
  /\ bufs = [left |-> EmptyTriple, right |-> EmptyTriple]
  /\ block_left = NoBlock
  /\ block_right = NoBlock
  /\ vec_out = <<>>
  /\ blk_i = 0
  /\ blk_j = 0
  /\ pc = "rt_new"
  /\ panic = "none"
  /\ rank = 0
  /\ med_out = <<>>
  /\ med_panic = "none"
  /\ RangeUnused
  /\ removed = <<>>
  /\ in_order = TRUE

\* a step of a round trip that leaves block b in block_left
RtStep(b, rem, next_pc) ==
  IF b.panic # "none"
  THEN /\ pc' = "panic"
       /\ panic' = b.panic
       /\ UNCHANGED <<bufs, block_left, removed>>
  ELSE /\ bufs' = Store(bufs, "left", b)
       /\ block_left' = Handle(b, "left")
       /\ removed' = rem
       /\ pc' = next_pc
       /\ panic' = panic

RtFrame ==
  UNCHANGED <<range_vars, slice, k_arg, quantile, is_int, k_eff, n_blocks, block_right,
              blk_j, rank, med_vars, in_order>>

\* Block::new, before either round trip
RtNew ==
  /\ pc = "rt_new"
  /\ \E trip \in {"r1_unwind", "r2_delete"} :
        RtStep(NewOn(slice, bufs, "left"), <<>>, trip)
  /\ UNCHANGED <<vec_out, blk_i>>
  /\ RtFrame

RtUnwind ==
  /\ pc = "r1_unwind"
  /\ RtStep(unwind(View(block_left, bufs)), Descending(ActiveSet), "r1_undelete")
  /\ UNCHANGED <<vec_out, blk_i>>
  /\ RtFrame

\* undelete(blk_i) of the first round trip
RtUndeleteNext ==
  /\ pc = "r1_undelete"
  /\ RtStep(undelete(View(block_left, bufs), blk_i),
            SubSeq(removed, 1, Len(removed) - 1),
            IF blk_i + 1 < Len(slice) THEN "r1_undelete" ELSE "r1_done")
  /\ blk_i' = blk_i + 1
  /\ UNCHANGED vec_out
  /\ RtFrame

\* a delete of the second round trip
RtDelete ==
  /\ pc = "r2_delete"
  /\ \E i \in ActiveSet :
        /\ RtStep(delete(View(block_left, bufs), i), Append(removed, i),
                  IF ActiveSet = {i} THEN "r2_undelete" ELSE "r2_delete")
        /\ vec_out' = Append(vec_out, i)
  /\ UNCHANGED blk_i
  /\ RtFrame

\* an undelete of the second round trip: of the position deleted last among
\* the inactive ones
RtUndeleteLast ==
  /\ pc = "r2_undelete"
  /\ RtStep(undelete(View(block_left, bufs), removed[Len(removed)]),
            SubSeq(removed, 1, Len(removed) - 1),
            IF Len(removed) > 1 THEN "r2_undelete" ELSE "r2_done")
  /\ UNCHANGED <<vec_out, blk_i>>
  /\ RtFrame

NextRoundTrip == RtNew \/ RtUnwind \/ RtUndeleteNext \/ RtDelete \/ RtUndeleteLast

SpecRoundTrip == InitRoundTrip /\ [][NextRoundTrip]_vars

\* ---------------------------------------------------- BlockUnion scenario
\* The sequence of test_block_union_2 for one rank: two blocks of equal
\* capacity, the left one full, the right one unwound, a BlockUnion over them;
\* the rank is any rank of the union, which always holds k_eff values; get(rank), then set_state(0), get(rank), set_state(1), get(rank), ...
\* slice is alpha_a followed by alpha_b, k_eff the capacity, blk_i the next
\* position to move, vec_out the values get has returned.
InitUnionScenario ==
  /\ \E cap \in 1..MaxUnionCap :
       /\ slice \in [1..(2 * cap) -> Values]
       /\ k_eff = cap
       /\ rank \in 0..(cap - 1)
  /\ k_arg = 0
  /\ quantile = 0
  /\ is_int = TRUE
  /\ n_blocks = 0
  /\ bufs = [left |-> EmptyTriple, right |-> EmptyTriple]
  /\ block_left = NoBlock
  /\ block_right = NoBlock
  /\ vec_out = <<>>
  /\ blk_i = 0
  /\ blk_j = 0
  /\ pc = "un_new"
  /\ panic = "none"
  /\ med_out = <<>>
  /\ med_panic = "none"
  /\ RangeUnused
  /\ removed = <<>>
  /\ in_order = TRUE

\* Block::new for both blocks and unwind of the right one
ScnUnionNew ==
  /\ pc = "un_new"
  /\ \E a \in {NewOn(Slice(slice, 0, k_eff), bufs, "left")},
        b \in {unwind(NewOn(Slice(slice, k_eff, 2 * k_eff), bufs, "right"))} :
        /\ bufs' = Store(Store(bufs, "left", a), "right", b)
        /\ block_left' = Handle(a, "left")
        /\ block_right' = Handle(b, "right")
  /\ pc' = "un_get"
  /\ UNCHANGED <<range_vars, slice, k_arg, quantile, is_int, k_eff, n_blocks, vec_out,
                 blk_i, blk_j, panic, rank, med_vars, ops_vars>>

\* the union aub of the scenario over the two blocks as they are
ScnUnion == BlockUnionNew(View(block_left, bufs), View(block_right, bufs), k_eff)

\* a step of the scenario that leaves the union u
ScnUnionStep(u, next_pc) ==
  IF u.panic # "none"
  THEN /\ pc' = "panic"
       /\ panic' = u.panic
       /\ UNCHANGED <<bufs, block_left, block_right>>
  ELSE /\ bufs' = Store(Store(bufs, "left", u.block_left), "right", u.block_right)
       /\ block_left' = Handle(u.block_left, "left")
       /\ block_right' = Handle(u.block_right, "right")
       /\ pc' = next_pc
       /\ panic' = panic

ScnGet ==
  /\ pc = "un_get"
  /\ \E g \in {UnionGet(ScnUnion, rank)} :
        /\ ScnUnionStep(g.inner, IF blk_i < k_eff THEN "un_set" ELSE "un_done")
        /\ vec_out' = IF g.inner.panic # "none" THEN vec_out ELSE Push(vec_out, g.val)
  /\ UNCHANGED <<range_vars, slice, k_arg, quantile, is_int, k_eff, n_blocks, blk_i, blk_j, rank, med_vars, ops_vars>>

ScnSetState ==
  /\ pc = "un_set"
  /\ ScnUnionStep(set_state(ScnUnion, blk_i), "un_get")
  /\ blk_i' = blk_i + 1
  /\ UNCHANGED <<range_vars, slice, k_arg, quantile, is_int, k_eff, n_blocks, vec_out, blk_j, rank, med_vars, ops_vars>>

NextUnionScenario == ScnUnionNew \/ ScnGet \/ ScnSetState

SpecUnionScenario == InitUnionScenario /\ [][NextUnionScenario]_vars

\* ------------------------------------------------ runs of BlockUnion calls
\* Two blocks of equal capacity k_eff, the left one full, the right one
\* unwound, and a BlockUnion over them as in test_block_union_2: after the
\* two Block::new, any sequence of get(r) for a rank r of the union, of
\* set_state(0), set_state(1), ... in this order, and of a reset of both
\* cursors.  Right after a get pc = "uo_got" (or "panic"), rank is the rank
\* asked for and vec_out holds the value returned; blk_i is the next position
\* to move.
InitUnionOps ==
  /\ \E cap \in 1..MaxMergeCap :
       /\ slice \in [1..(2 * cap) -> Values]
       /\ k_eff = cap
  /\ rank = 0
  /\ k_arg = 0
  /\ quantile = 0
  /\ is_int = TRUE
  /\ n_blocks = 0
  /\ bufs = [left |-> EmptyTriple, right |-> EmptyTriple]
  /\ block_left = NoBlock
  /\ block_right = NoBlock
  /\ vec_out = <<>>
  /\ blk_i = 0
  /\ blk_j = 0
  /\ pc = "uo_new"
  /\ panic = "none"
  /\ med_out = <<>>
  /\ med_panic = "none"
  /\ RangeUnused
  /\ removed = <<>>
  /\ in_order = TRUE

UoFrame ==
  UNCHANGED <<range_vars, slice, k_arg, quantile, is_int, k_eff, n_blocks, med_vars, ops_vars>>

UoReady == pc \in {"uo_ready", "uo_got"}

\* what the last get has asked for, returned and done is kept until the next
\* call only
UoForget == vec_out' = <<>> /\ rank' = 0 /\ UNCHANGED blk_j

UoNew ==
  /\ pc = "uo_new"
  /\ \E a \in {NewOn(Slice(slice, 0, k_eff), bufs, "left")},
        b \in {unwind(NewOn(Slice(slice, k_eff, 2 * k_eff), bufs, "right"))} :
        /\ bufs' = Store(Store(bufs, "left", a), "right", b)
        /\ block_left' = Handle(a, "left")
        /\ block_right' = Handle(b, "right")
  /\ pc' = "uo_ready"
  /\ UNCHANGED <<vec_out, blk_i, blk_j, rank, panic>>
  /\ UoFrame

\* aub.get(r)
UoGet ==
  /\ UoReady
  /\ \E u \in {ScnUnion} :
     \E r \in 0..(k_eff - 1) :
     \E g \in {UnionGet(u, r)} :
        /\ ScnUnionStep(g.inner, "uo_got")
        /\ vec_out' = IF g.inner.panic # "none" THEN <<>> ELSE <<g.val>>
        /\ rank' = r
  /\ UNCHANGED <<blk_i, blk_j>>
  /\ UoFrame

UoSetState ==
  /\ UoReady
  /\ blk_i < k_eff
  /\ \E u \in {set_state(ScnUnion, blk_i)} : ScnUnionStep(u, "uo_ready")
  /\ blk_i' = blk_i + 1
  /\ UoForget
  /\ UoFrame

\* aub.block_left.reset(); aub.block_right.reset()
UoReset ==
  /\ UoReady
  /\ \E u \in {ScnUnion} :
        ScnUnionStep([u EXCEPT !.block_left = reset(u.block_left),
                               !.block_right = reset(u.block_right)], "uo_ready")
  /\ UNCHANGED blk_i
  /\ UoForget
  /\ UoFrame

NextUnionOps == UoNew \/ UoGet \/ UoSetState \/ UoReset

SpecUnionOps == InitUnionOps /\ [][NextUnionOps]_vars

\* ----------------------------------------------- reference order statistics
\* the r-th smallest (0-based) of the values of the non-empty sequence w
KthSmallest(w, r) ==
  LET below(v) == Cardinality({x \in DOMAIN w : w[x] < v})
      upto(v) == Cardinality({x \in DOMAIN w : w[x] <= v})
  IN CHOOSE v \in {w[x] : x \in DOMAIN w} : below(v) <= r /\ r < upto(v)

\* the linearly interpolated qn/QDen-quantile of the values of w:
\* t = (L-1)*q, lo = floor(t), hi = ceil(t), s[lo] + (t-lo)*(s[hi]-s[lo])
RefQuantile(w, qn) ==
  LET num == (Len(w) - 1) * qn
      lo == num \div QDen
      hi == (num + QDen - 1) \div QDen
      slo == KthSmallest(w, lo)
      shi == KthSmallest(w, hi)
  IN IF lo = hi THEN slo ELSE slo + ((num - lo * QDen) * (shi - slo)) \div QDen

\* the window of output x (0-based): slice[max(0, x-k'+1) ..= x], k' = min(k, n)
Window(x) ==
  LET kc == Min(k_arg, Len(slice))
  IN Slice(slice, IF x - kc + 1 > 0 THEN x - kc + 1 ELSE 0, x + 1)

ValidCall ==
  /\ slice # <<>>
  /\ k_arg >= 1
  /\ quantile \in 0..QDen
  /\ \A x \in DOMAIN slice : ~IsNaN(slice[x])

Terminated == pc \in {"done", "panic"}

\* ------------------------------------------------------------------ claims
\* C1: for a valid call without NaN, rolling_quantile returns y with y[i] the
\* linearly interpolated q-quantile of the window slice[max(0, i-k'+1) ..= i],
\* for every i, in the warm-up and in the sliding phase.
C1_WindowQuantile ==
  (ValidCall /\ ~is_int /\ pc = "done") =>
    \A x \in 1..Len(vec_out) : vec_out[x] = RefQuantile(Window(x - 1), quantile)

\* C2: for every valid call rolling_quantile returns, and returns exactly
\* Len(slice) outputs.
C2_OutputLength ==
  (ValidCall /\ Terminated) => (pc = "done" /\ Len(vec_out) = Len(slice))

\* the block and the triple that Start leaves in block_right
DummyRight == BlockNew(Slice(slice, 0, 1), <<>>, <<>>)

\* C3: in the warm-up phase, for every i < min(k, n) the output y[i] is the
\* q-quantile of the prefix slice[0..=i], computed on block_left alone (it
\* holds i+1 elements after undelete(i); block_right and its triple are not
\* touched, and no warm-up step aborts); when k >= n every output is a prefix
\* quantile and the sliding phase emits nothing.
C3_WarmupPrefix ==
  ValidCall =>
    LET kc == Min(k_arg, Len(slice))
    IN /\ \A x \in 1..Min(Len(vec_out), kc) :
            vec_out[x] = RefQuantile(SubSeq(slice, 1, x), quantile)
       /\ pc = "warmup" =>
            /\ block_left.n_element = blk_i
            /\ Len(vec_out) = blk_i
            /\ block_right = Handle(DummyRight, "right")
            /\ bufs["right"] = Store(bufs, "right", DummyRight)["right"]
       /\ pc = "panic" => Len(vec_out) >= kc
       /\ k_arg >= Len(slice) =>
            /\ pc \notin {"slide", "panic"}
            /\ pc \in {"blocks", "done"} => (Len(vec_out) = Len(slice) /\ blk_i = 1)

\* a state where C3's case has happened: a warm-up of width 4 has ended with
\* an interpolated quantile, and the sliding phase is about to start
C3_Witness ==
  /\ pc = "blocks"
  /\ blk_i = 1
  /\ k_eff = 4
  /\ Len(slice) > 4
  /\ quantile = 2
  /\ Len(vec_out) = 4
  /\ vec_out[4] # vec_out[3]

\* C4: outputs are produced strictly in input order: every step that works on
\* the blocks for element e (undelete, set_state, get; Block::new and unwind
\* for the block that starts at e) is taken when exactly the outputs of the
\* elements before e have been appended, a step appends at most one output,
\* and an output once appended is never changed or removed.
C4_InputOrder ==
  [][/\ pc = "warmup" => blk_i = Len(vec_out)
     /\ pc = "slide" => blk_i * k_eff + blk_j = Len(vec_out)
     /\ (pc = "blocks" /\ pc' = "slide") => blk_i * k_eff = Len(vec_out)
     /\ Len(vec_out') \in {Len(vec_out), Len(vec_out) + 1}
     /\ SubSeq(vec_out', 1, Len(vec_out)) = vec_out
     /\ (pc \in {"warmup", "slide"} /\ pc' # "panic") => Len(vec_out') = Len(vec_out) + 1
     /\ (pc \notin {"warmup", "slide"}) => vec_out' = vec_out]_vars

\* a state where C4's case has happened: outputs of both phases have been
\* appended and differ, and a further sliding step is due
C4_Witness ==
  /\ pc = "slide"
  /\ blk_j > 0
  /\ Len(vec_out) > k_eff
  /\ vec_out[1] # vec_out[Len(vec_out)]

\* C8: over an integral element type the selector returns get(lo) whenever
\* (L-1)*q is not an integer (the proportion casts to 0), hence
\* rolling_quantile returns for each window its element of rank floor((L-1)*q).
C8_IntegerLowerRank ==
  /\ \A vi \in Values, vj \in Values, pnum \in 1..(QDen - 1) :
        Interpolate(TRUE, pnum, vi, vj) = vi
  /\ (ValidCall /\ is_int /\ pc = "done") =>
        \A x \in 1..Len(vec_out) :
           vec_out[x] = KthSmallest(Window(x - 1),
                                    ((Len(Window(x - 1)) - 1) * quantile) \div QDen)

\* what the call hands back to its caller: the function returns Vec<T>, so
\* a call ends by returning out ("values") or by a panic ("abort"); no step
\* of the code builds an error value
CallResult ==
  IF pc = "done" THEN "values" ELSE IF pc = "panic" THEN "abort" ELSE "running"

\* C5: a call with k < 1, an empty input or q outside [0,1] reports an
\* InvalidArgument error as its result; it neither aborts nor returns values.
C5_InvalidArgument ==
  (k_arg < 1 \/ slice = <<>> \/ quantile \notin 0..QDen) =>
     CallResult \notin {"abort", "values"}

\* C6: when two window values compared inside the kernel are incomparable
\* (a NaN), the call reports an Unordered error as its result; it neither
\* aborts nor returns values.
C6_Unordered ==
  ~(CallResult = "abort" /\ panic = "unwrap_cmp")

\* the active positions of the Block scenario's block after the calls made
ScnActive ==
  IF pc = "blk_undelete" THEN 0..(blk_i - 1)
  ELSE IF pc = "blk_delete" THEN blk_i..(Len(slice) - 1)
  ELSE {}

\* the position of rank r among the positions act of alpha, in ascending
\* (value, position) order
PositionOfRank(alpha, act, r) ==
  CHOOSE x \in act :
    Cardinality({y \in act : At(alpha, y) < At(alpha, x)
                             \/ (At(alpha, y) = At(alpha, x) /\ y < x)}) = r

\* C9: after unwind and undelete_set_median(0), (1), ... and then after
\* delete_set_median(0), (1), ... while an element remains, peek() after each
\* call returns the active element of rank floor(n_element / 2) in ascending
\* (value, position) order; no call aborts.
C9_SetMedianPeek ==
  /\ pc # "panic"
  /\ ScnActive # {} =>
       LET mid == PositionOfRank(slice, ScnActive, Cardinality(ScnActive) \div 2)
       IN /\ block_left.n_element = Cardinality(ScnActive)
          /\ block_left.m = mid
          /\ peek(View(block_left, bufs)) = <<At(slice, mid)>>

\* a state where C9's case has happened: a block of four distinct values has
\* been filled and two of its positions deleted again
C9_Witness ==
  /\ pc = "blk_delete"
  /\ blk_i = 2
  /\ Len(slice) = 4
  /\ Cardinality({slice[x] : x \in DOMAIN slice}) = 4

\* the values active in the BlockUnion scenario after moved calls of set_state
ScnUnionValues(moved) ==
  Slice(slice, moved, k_eff) \o Slice(slice, k_eff, k_eff + moved)

\* C10: with the left block full and the right one unwound, get(r) called
\* once before and once after each of set_state(0), ..., set_state(k-1), with
\* the same r, returns every time the r-th smallest of the active left and
\* right values; no call aborts.
C10_UnionFixedRank ==
  /\ pc # "panic"
  /\ \A x \in 1..Len(vec_out) :
        vec_out[x] = KthSmallest(ScnUnionValues(x - 1), rank)

\* a state where C10's case has happened: all positions of blocks of capacity
\* 3 have been moved, and the value of the rank has changed on the way
C10_Witness ==
  /\ pc = "un_done"
  /\ k_eff = 3
  /\ Len(vec_out) = 4
  /\ vec_out[1] # vec_out[3]
  /\ vec_out[3] # vec_out[4]

\* how the rolling_median call has ended, "" before
MedianResult ==
  IF pc = "m_panic" THEN "abort" ELSE IF pc = "m_done" THEN "values" ELSE ""

\* C7: rolling_median(k, slice) gives what rolling_quantile(k, slice, 0.5)
\* gives on every valid input: once both calls have ended they have ended the
\* same way, and the values rolling_median has computed are the values
\* rolling_quantile has returned.
C7_MedianIsHalfQuantile ==
  MedianResult # "" =>
    /\ (MedianResult = "abort") <=> (panic # "none")
    /\ MedianResult = "values" => med_out = vec_out

\* the union of the inner loop's iteration at hand, as BlockUnion::new makes it
DriverUnion ==
  BlockUnionNew(View(block_left, bufs), View(block_right, bufs), k_eff)

\* C11: in every run of rolling_quantile the union has k elements (k after
\* the clamp) when BlockUnion::new makes it and again after set_state(j),
\* which takes one element from the left block and gives one to the right
\* block; also in a trailing block shorter than k.  The states are those at
\* BlockUnion::new of iteration j (after set_state(j - 1)), after the last
\* set_state of a block (where the two blocks have been swapped), and after
\* the set_state(j) of an iteration that aborts.
C11_UnionLenIsK ==
  /\ pc = "slide" =>
       /\ DriverUnion.panic = "none"
       /\ block_left.n_element = k_eff - blk_j
       /\ block_right.n_element = blk_j
  /\ (pc \in {"blocks", "done"} /\ blk_i > 1) =>
       /\ block_right.n_element = k_eff - blk_j
       /\ block_left.n_element = blk_j
  /\ pc = "panic" =>
       /\ block_left.n_element = k_eff - (blk_j + 1)
       /\ block_right.n_element = blk_j + 1
  /\ (pc \in {"slide", "panic"} \/ (pc \in {"blocks", "done"} /\ blk_i > 1)) =>
       block_left.n_element + block_right.n_element = k_eff

\* a state where C11's case has happened: the inner loop is in a trailing
\* block shorter than k and has moved an element already
C11_Witness ==
  /\ pc = "slide"
  /\ Len(block_right.alpha) < k_eff
  /\ blk_j >= 1
  /\ blk_j < Len(block_right.alpha)

\* the block of the runs of Block operations with its vectors
OpsBlock == View(block_left, bufs)

RECURSIVE Path(_, _, _)
\* the positions met by following the links f from m for steps steps
Path(f, m, steps) ==
  IF steps <= 0 THEN <<>> ELSE <<At(f, m)>> \o Path(f, At(f, m), steps - 1)

\* the positions met by following next from tail for k + 1 steps
TailPath(b) == Path(b.next, b.tail, b.k + 1)

\* position i is not after position j in ascending (value, position) order
PairLeq(alpha, i, j) ==
  At(alpha, i) < At(alpha, j) \/ (At(alpha, i) = At(alpha, j) /\ i <= j)

\* P1 for block b whose active positions are act and whose path from tail is p
OrderOn(p, b, act) ==
  \A x \in 1..b.n_element :
     /\ p[x] \in act
     /\ x < b.n_element => PairLeq(b.alpha, p[x], p[x + 1])

\* P1 for block b whose active positions are act
OrderP1(b, act) == \A p \in {TailPath(b)} : OrderOn(p, b, act)

\* C12 as stated: P1 after Block::new and after every operation of any
\* sequence of unwind, delete of an active position, undelete of an inactive
\* position in any order, traverse_to_index, advance, reverse and reset:
\* following next from next[tail] for n_element steps visits active positions
\* in nondecreasing (value, position) order.
C12_OrderAnySequence == pc = "ops" => OrderP1(OpsBlock, ActiveSet)

\* C12, amended: P1 holds after Block::new and after every operation of a
\* sequence in which every undelete re-activates the position that was
\* deleted last among the inactive ones and every unwind is made on a full
\* block.
C12_OrderInOrder == (pc = "ops" /\ in_order) => OrderP1(OpsBlock, ActiveSet)

\* a state where C12's case has happened: operations made in order have left
\* a block of three distinct values with its middle position inactive
C12_Witness ==
  /\ pc = "ops"
  /\ in_order
  /\ Cardinality({slice[x] : x \in DOMAIN slice}) = 3
  /\ Len(removed) = 1
  /\ block_left.n_element = 2
  /\ removed[1] = 1

\* the number of steps along the path p from tail back to tail, 0 if tail is
\* not met again
CycleLen(p, tail) ==
  LET back == {x \in DOMAIN p : p[x] = tail}
  IN IF back = {} THEN 0 ELSE CHOOSE x \in back : \A y \in back : x <= y

\* the positions on the path p from tail before it is back at tail
CycleSet(p, tail) == {p[x] : x \in 1..(CycleLen(p, tail) - 1)}

\* P2 for block b whose active positions are act and whose path from tail is p
CardinalityOn(p, b, act) ==
  /\ CycleLen(p, b.tail) = b.n_element + 1
  /\ CycleSet(p, b.tail) = act
  /\ Cardinality(act) = b.n_element
  /\ 0 <= b.n_element
  /\ b.n_element <= b.k

\* P2 for block b whose active positions are act
CardinalityP2(b, act) == \A p \in {TailPath(b)} : CardinalityOn(p, b, act)

\* C13 as stated: P2 after Block::new and after every operation of any
\* sequence of unwind, delete of an active position and undelete of an
\* inactive position in any order: the positions on the next-cycle through
\* tail are exactly the active ones, n_element of them, 0 <= n_element <= k.
C13_CardinalityAnySequence == pc = "ops" => CardinalityP2(OpsBlock, ActiveSet)

\* C13, amended: P2 holds after Block::new and after every operation of a
\* sequence in which every undelete re-activates the position that was
\* deleted last among the inactive ones and every unwind is made on a full
\* block.
C13_CardinalityInOrder ==
  (pc = "ops" /\ in_order) => CardinalityP2(OpsBlock, ActiveSet)

\* a state where C13's case has happened: operations made in order have left
\* a block of capacity 3 with position 1 and then position 2 deleted
C13_Witness ==
  /\ pc = "ops"
  /\ in_order
  /\ Len(slice) = 3
  /\ removed = <<1, 2>>
  /\ block_left.n_element = 1

\* the number of active positions before position m in (value, position) order
RankOf(alpha, act, m) ==
  Cardinality({y \in act : y # m /\ PairLeq(alpha, y, m)})

\* P3 for block b whose active positions are act
CursorRankP3(b, act) ==
  (b.n_element > 0 /\ b.m # b.tail) =>
     b.current_index = RankOf(b.alpha, act, b.m)

\* C14 as stated: P3 after every public operation of a Block (new, unwind,
\* delete of an active position, undelete of an inactive position,
\* traverse_to_index with a target <= n_element, advance, reverse, reset): if
\* n_element > 0 and m is not tail, current_index is the number of active
\* positions before m in (value, position) order.
C14_CursorRankAnySequence == pc = "ops" => CursorRankP3(OpsBlock, ActiveSet)

\* C14, amended: P3 holds after every public operation of a sequence in
\* which every undelete re-activates the position that was deleted last among
\* the inactive ones and every unwind is made on a full block.
C14_CursorRankInOrder ==
  (pc = "ops" /\ in_order) => CursorRankP3(OpsBlock, ActiveSet)

\* a state where C14's case has happened: operations made in order have left
\* one position of three inactive and the cursor on the larger of the other two
C14_Witness ==
  /\ pc = "ops"
  /\ in_order
  /\ Len(slice) = 3
  /\ Len(removed) = 1
  /\ block_left.n_element = 2
  /\ block_left.current_index = 1
  /\ block_left.m # block_left.tail

\* block b, whose active positions are act, is well formed: the n_element
\* positions after tail on the next-chain are active and in nondecreasing
\* (value, position) order, they are all the active positions, the chain is
\* back at tail after them, prev leads back along the chain, and
\* current_index is the rank of m when m is not tail
WellFormed(b, act) ==
  \A p \in {Path(b.next, b.tail, b.n_element + 1)} :
     /\ OrderOn(p, b, act)
     /\ p[b.n_element + 1] = b.tail
     /\ {p[x] : x \in 1..b.n_element} = act
     /\ Cardinality(act) = b.n_element
     /\ At(b.prev, p[1]) = b.tail
     /\ \A x \in 1..b.n_element : At(b.prev, p[x + 1]) = p[x]
     /\ CursorRankP3(b, act)

\* the positions lo .. hi - 1
Range(lo, hi) == lo..(hi - 1)

\* both blocks of the driver are well formed when undone positions of the
\* right block have been undeleted and as many of the left block deleted
BothWellFormed(left, right, undone) ==
  \A bl \in {left}, br \in {right} :
     /\ WellFormed(bl, Range(undone, Len(bl.alpha)))
     /\ WellFormed(br, Range(0, undone))

\* the union of the inner loop's iteration at hand after set_state(j)
DriverAfterSetState == set_state(DriverUnion, blk_j)

\* C15: in every run of rolling_quantile on valid input every block goes
\* through new, unwind, undelete(0), (1), ... and then delete(0), (1), ...,
\* and is well formed after every operation of the driver, the cursor moves of
\* QuantileUpdate and BlockUnion included: the next-chain from tail lists
\* exactly the active positions, n_element of them, in nondecreasing (value,
\* position) order, prev is the inverse of next on it, and current_index is
\* the rank of m when m is not tail.
C15_DriverBlocksWellFormed ==
  \A left \in {View(block_left, bufs)}, right \in {View(block_right, bufs)} :
  /\ pc = "warmup" =>
       /\ WellFormed(left, Range(0, blk_i))
       /\ WellFormed(right, {0})
       /\ blk_i < Len(block_left.alpha) =>
            \A filled \in {undelete(left, blk_i)} :
               WellFormed(filled, Range(0, blk_i + 1))
  /\ (pc \in {"blocks", "done"} /\ blk_i = 1) =>
       /\ WellFormed(left, Range(0, k_eff))
       /\ WellFormed(right, {0})
  /\ (pc \in {"blocks", "done"} /\ blk_i > 1) =>
       /\ WellFormed(left, Range(0, Len(block_left.alpha)))
       /\ WellFormed(right, Range(Len(block_left.alpha), k_eff))
  /\ pc = "slide" =>
       /\ Len(block_left.alpha) = k_eff
       /\ BothWellFormed(left, right, blk_j)
       /\ blk_j < Len(block_right.alpha) =>
            \A slid \in {DriverAfterSetState} :
               BothWellFormed(slid.block_left, slid.block_right, blk_j + 1)
  /\ pc = "panic" => BothWellFormed(left, right, blk_j + 1)

\* a state where C15's case has happened: in a run of width 2 the third block
\* is being filled, one of its positions is active and one of the block before
\* it has been deleted
C15_Witness ==
  /\ pc = "slide"
  /\ k_eff = 2
  /\ blk_i = 2
  /\ blk_j = 1
  /\ block_left.n_element = 1
  /\ block_right.n_element = 1

\* the block of a round trip right after its Block::new
FreshBlock == BlockNew(slice, <<>>, <<>>)

\* block b has the links and the element count of block c
SameLinks(b, c) ==
  /\ b.prev = c.prev
  /\ b.next = c.next
  /\ b.n_element = c.n_element

\* block b has the cursor of block c
SameCursor(b, c) == b.m = c.m /\ b.current_index = c.current_index

\* the cursor of block b is on position i, and current_index is i's rank among
\* all positions
CursorOn(b, i) ==
  /\ b.m = i
  /\ b.current_index = RankOf(b.alpha, 0..(b.k - 1), i)

\* C16 as stated (R1): for a fresh Block over a non-empty slice of length k,
\* unwind() and then undelete(0), undelete(1), ..., undelete(k-1) restore the
\* state right after Block::new: prev, next, n_element, m and current_index.
C16_UnwindUndeleteRestoresAll ==
  /\ pc # "panic"
  /\ pc = "r1_done" =>
       /\ SameLinks(OpsBlock, FreshBlock)
       /\ SameCursor(OpsBlock, FreshBlock)

\* C16, amended: unwind() and then undelete(0), ..., undelete(k-1) restore
\* prev, next and n_element to their values right after Block::new, without
\* an abort; the cursor is left on position 0, with current_index the rank of
\* position 0.
C16_UnwindUndeleteRestoresLinks ==
  /\ pc # "panic"
  /\ pc = "r1_done" =>
       /\ SameLinks(OpsBlock, FreshBlock)
       /\ CursorOn(OpsBlock, 0)

\* a state where C16's case has happened: the first round trip has ended on
\* a block of three values whose first position is the largest
C16_Witness ==
  /\ pc = "r1_done"
  /\ Len(slice) = 3
  /\ slice[1] > slice[2]
  /\ slice[2] > slice[3]

\* C17 as stated (R2): for a full, fresh Block of capacity k and any
\* permutation p of 0..k-1, delete(p[0]), ..., delete(p[k-1]) and then
\* undelete(p[k-1]), ..., undelete(p[0]) restore the state right after
\* Block::new: prev, next, n_element, m and current_index.
C17_DeleteUndeleteRestoresAll ==
  /\ pc # "panic"
  /\ pc = "r2_done" =>
       /\ SameLinks(OpsBlock, FreshBlock)
       /\ SameCursor(OpsBlock, FreshBlock)

\* C17, amended: delete(p[0]), ..., delete(p[k-1]) and then undelete(p[k-1]),
\* ..., undelete(p[0]) restore prev, next and n_element to their values right
\* after Block::new, without an abort; the cursor is left on p[k-1], the
\* position deleted last, with current_index the rank of that position.
C17_DeleteUndeleteRestoresLinks ==
  /\ pc # "panic"
  /\ pc = "r2_done" =>
       /\ SameLinks(OpsBlock, FreshBlock)
       /\ CursorOn(OpsBlock, vec_out[Len(vec_out)])

\* a state where C17's case has happened: the second round trip has ended on
\* a block of three positions deleted in the order 1, 2, 0
C17_Witness ==
  /\ pc = "r2_done"
  /\ vec_out = <<1, 2, 0>>
  /\ removed = <<>>

\* position i of block b is linked: its two neighbours point to it
Linked(b, i) ==
  /\ At(b.next, At(b.prev, i)) = i
  /\ At(b.prev, At(b.next, i)) = i

\* delete_link(i) and then undelete_link(i) leave prev and next of b as they were
LinkRoundTrip(b, i) ==
  \A after \in {undelete_link(delete_link(b, i), i)} :
     after.prev = b.prev /\ after.next = b.next

\* C18 (P4): for any linked position i, delete_link(i) immediately followed by
\* undelete_link(i) restores the prev and next vectors exactly.  Every active
\* position is linked as long as the operations were made in order.
C18_LinkRoundTrip ==
  pc = "ops" =>
    \A b \in {OpsBlock} :
       /\ \A i \in 0..(b.k - 1) : Linked(b, i) => LinkRoundTrip(b, i)
       /\ in_order => \A i \in ActiveSet : Linked(b, i)

\* a state where C18's case has happened: two positions of a block are
\* active, and delete_link of the first one changes both vectors
C18_Witness ==
  /\ pc = "ops"
  /\ in_order
  /\ ActiveSet = {0, 2}
  /\ Linked(OpsBlock, 0)
  /\ delete_link(OpsBlock, 0).prev # OpsBlock.prev
  /\ delete_link(OpsBlock, 0).next # OpsBlock.next

\* C19: after unwind() on a Block of any capacity k >= 1 the block is empty
\* with m = tail, n_element = 0 and current_index = 0, so that current_index
\* = n_element holds when the cursor is past-end (m = tail).
C19_UnwindResetsIndex ==
  (pc = "blk_undelete" /\ blk_i = 0) =>
    /\ block_left.m = block_left.tail
    /\ block_left.n_element = 0
    /\ block_left.current_index = 0
    /\ block_left.m = block_left.tail =>
         block_left.current_index = block_left.n_element

\* the positions of alpha in ascending order of value, ties in ascending
\* order of position
SortedPositions(alpha) ==
  [x \in 1..Len(alpha) |->
     PositionOfRank(alpha, 0..(Len(alpha) - 1), x - 1)]

\* block b over alpha is as Block::new is to leave it
FreshlyThreaded(b, alpha) ==
  \A pi \in {SortedPositions(alpha)} :
  \A k \in {Len(alpha)} :
     /\ b.n_element = k
     /\ b.tail = k
     /\ b.k = k
     /\ Len(b.prev) = k + 1
     /\ Len(b.next) = k + 1
     /\ At(b.next, b.tail) = pi[1]
     /\ At(b.prev, pi[1]) = b.tail
     /\ \A x \in 1..(k - 1) :
           /\ At(b.next, pi[x]) = pi[x + 1]
           /\ At(b.prev, pi[x + 1]) = pi[x]
     /\ At(b.next, pi[k]) = b.tail
     /\ At(b.prev, b.tail) = pi[k]
     /\ b.m = pi[(k \div 2) + 1]
     /\ b.current_index = k \div 2

\* C20: Block::new over a non-empty slice of length k gives n_element = k,
\* tail = k, prev and next of length k + 1 threaded tail -> pi[0] -> ... ->
\* pi[k-1] -> tail, pi the positions in ascending order of value with ties in
\* ascending order of position, m = pi[k/2] and current_index = k/2; what the
\* recycled prev and next vectors held before, longer or shorter than k + 1,
\* does not matter.
C20_NewThreadsSorted ==
  pc = "ops_new" =>
    \A b \in {NewOn(slice, bufs, "left")} :
       /\ b.panic = "none"
       /\ FreshlyThreaded(b, slice)
       /\ b.prev = FreshBlock.prev
       /\ b.next = FreshBlock.next

\* a state where C20's case happens: Block::new has run over three values
\* with a tie and no operation has changed the block since
C20_Witness ==
  /\ pc = "ops"
  /\ Len(slice) = 3
  /\ slice[1] = slice[3]
  /\ slice[2] < slice[1]
  /\ removed = <<>>
  /\ OpsBlock.m = 0
  /\ OpsBlock.current_index = 1
  /\ FreshlyThreaded(OpsBlock, slice)

\* the cursor of block b0 as delete and undelete see it: a past-end cursor of
\* a non-empty block is first stepped back
SteppedBack(b0) == IF ~is_empty(b0) /\ at_end(b0) THEN reverse(b0) ELSE b0

\* delete(i) of block b0, with i under the (stepped back) cursor, does what
\* C21 says
DeleteAtCursor(b0, i, act) ==
  \A b \in {SteppedBack(b0)} :
  \A a \in {delete(b0, i)} :
  \A succ \in {At(b.next, b.m)} :
     /\ a.panic = "none"
     /\ a.n_element = b0.n_element - 1
     /\ a.n_element = 0 => a.m = a.tail /\ a.current_index = 0
     /\ (a.n_element > 0 /\ succ # b.tail) =>
           a.m = succ /\ a.current_index = b.current_index
     /\ (a.n_element > 0 /\ succ = b.tail) =>
           a.m = At(b.prev, b.m) /\ a.current_index = b.current_index - 1
     /\ a.n_element > 0 => a.m \in act \ {i}

\* C21: delete(i) with i the cursor position m (a past-end cursor first
\* stepped back to the last active position) moves the cursor to next[m] with
\* current_index unchanged; if next[m] is tail and elements remain, to prev[m]
\* with current_index one less; if the block becomes empty the cursor is tail
\* with current_index = 0.  n_element goes down by one and the cursor of a
\* non-empty block is on an active position.
C21_DeleteAtCursor ==
  OpsLinksReady =>
    \A i \in ActiveSet :
       SteppedBack(OpsBlock).m = i => DeleteAtCursor(OpsBlock, i, ActiveSet)

\* a state where C21's case happens: the cursor of a block of three active
\* positions is past-end, and the delete of the last active position steps
\* it back twice
C21_Witness ==
  /\ OpsLinksReady
  /\ OpsBlock.n_element = 3
  /\ at_end(OpsBlock)
  /\ OpsBlock.current_index = 3
  /\ \E i \in ActiveSet :
        /\ At(OpsBlock.prev, OpsBlock.tail) = i
        /\ delete(OpsBlock, i).current_index = 1
        /\ delete(OpsBlock, i).m = At(OpsBlock.prev, i)

\* undelete(i) of the empty block b0 leaves i as the only element, under the
\* cursor
UndeleteOnEmpty(b0, i) ==
  \A a \in {undelete(b0, i)} :
     /\ a.panic = "none"
     /\ a.n_element = 1
     /\ a.m = i
     /\ a.current_index = 0
     /\ At(a.next, a.tail) = i
     /\ At(a.next, i) = a.tail

\* undelete(i) of the non-empty block b0 leaves the cursor on a position
UndeleteOnNonEmpty(b0, i) ==
  \A a \in {undelete(b0, i)} :
     /\ a.panic = "none"
     /\ a.n_element = b0.n_element + 1
     /\ a.m # a.tail

\* C22 as stated: undelete(i) on an empty Block, for any inactive position i,
\* leaves n_element = 1, m = i and current_index = 0 with i the only position
\* on the chain from tail; undelete(i) on a non-empty block never leaves the
\* cursor past-end.
C22_UndeleteAnyInactive ==
  OpsLinksReady =>
    \A x \in DOMAIN removed :
       IF is_empty(OpsBlock) THEN UndeleteOnEmpty(OpsBlock, removed[x])
       ELSE UndeleteOnNonEmpty(OpsBlock, removed[x])

\* C22, amended: undelete(i) on an empty Block, for the inactive position i
\* that was deleted last, leaves n_element = 1, m = i and current_index = 0
\* with i the only position on the chain from tail; undelete(i) on a
\* non-empty block, for any inactive position i, never leaves the cursor
\* past-end.
C22_UndeleteLastInactive ==
  OpsLinksReady =>
    \A x \in DOMAIN removed :
       IF is_empty(OpsBlock)
       THEN x = Len(removed) => UndeleteOnEmpty(OpsBlock, removed[x])
       ELSE UndeleteOnNonEmpty(OpsBlock, removed[x])

\* a state where C22's case happens: a block of three positions has been
\* emptied, position 1 last, and its cursor is past-end with the
\* current_index that Block::new gave it
C22_Witness ==
  /\ OpsLinksReady
  /\ is_empty(OpsBlock)
  /\ Len(removed) = 3
  /\ removed[3] = 1
  /\ at_end(OpsBlock)
  /\ undelete(OpsBlock, 1).m = 1
  /\ undelete(OpsBlock, 1).n_element = 1

\* the cursor of block b is within the list, and past-end exactly when
\* current_index is n_element
CursorInRange(b) ==
  /\ 0 <= b.current_index
  /\ b.current_index <= b.n_element
  /\ b.m = b.tail <=> b.current_index = b.n_element

\* advance changes block b by one step, or not at all at the past-end
\* position
AdvanceOneStep(b) ==
  \A a \in {advance(b)} :
     IF b.current_index = b.n_element THEN a = b
     ELSE a = [b EXCEPT !.current_index = b.current_index + 1,
                        !.m = At(b.next, b.m)]

\* reverse changes block b by one step, or not at all at index 0
ReverseOneStep(b) ==
  \A a \in {reverse(b)} :
     IF b.current_index = 0 THEN a = b
     ELSE a = [b EXCEPT !.current_index = b.current_index - 1,
                        !.m = At(b.prev, b.m)]

RECURSIVE MovesKeepCursor(_, _)
\* every sequence of at most steps calls of advance and reverse from block b
\* is made of single clamped steps and keeps the cursor in range
MovesKeepCursor(b, steps) ==
  /\ CursorInRange(b)
  /\ steps > 0 =>
       /\ AdvanceOneStep(b)
       /\ ReverseOneStep(b)
       /\ MovesKeepCursor(advance(b), steps - 1)
       /\ MovesKeepCursor(reverse(b), steps - 1)

\* C23: advance is a no-op when current_index = n_element and otherwise adds
\* one to current_index and sets m = next[m]; reverse is a no-op when
\* current_index = 0 and otherwise takes one from current_index and sets m =
\* prev[m]; after any sequence of advance and reverse from a well-formed
\* block 0 <= current_index <= n_element, and m = tail exactly when
\* current_index = n_element.
\* The blocks are those that the operations made in order reach, with the
\* cursor in range to begin with.
C23_AdvanceReverseClamped ==
  (pc = "ops" /\ in_order /\ CursorInRange(OpsBlock)
     /\ WellFormed(OpsBlock, ActiveSet)) =>
     MovesKeepCursor(OpsBlock, MaxMoves)

\* a state where C23's case happens: a well-formed block of two active
\* positions with the cursor past-end, where advance is clamped and reverse
\* steps back to the last active position
C23_Witness ==
  /\ pc = "ops"
  /\ in_order
  /\ WellFormed(OpsBlock, ActiveSet)
  /\ CursorInRange(OpsBlock)
  /\ OpsBlock.n_element = 2
  /\ OpsBlock.m = OpsBlock.tail
  /\ advance(OpsBlock) = OpsBlock
  /\ reverse(OpsBlock).m \in ActiveSet
  /\ reverse(OpsBlock).current_index = 1

\* traverse_to_index(t) leaves block b, whose active positions are act, with
\* the cursor on the position of rank t and the list as it was
TraverseReaches(b, act, t) ==
  \A a \in {traverse_to_index(b, t)} :
     /\ a.panic = "none"
     /\ a.current_index = t
     /\ a.m = (IF t = b.n_element THEN b.tail ELSE PositionOfRank(b.alpha, act, t))
     /\ a.prev = b.prev
     /\ a.next = b.next
     /\ a.n_element = b.n_element

\* the values of the active positions of the block of the runs
ActiveValues == [x \in ActiveSet |-> At(slice, x)]

\* a block without elements: a fresh block, unwound
EmptyBlock == unwind(FreshBlock)

\* get(r1) and then get(r2) of the union u return the values of rank r1 and
\* r2 among the values w
TwoGets(u, w, r1, r2) ==
  \A g1 \in {UnionGet(u, r1)} :
  \A g2 \in {UnionGet(g1.inner, r2)} :
     /\ g1.inner.panic = "none"
     /\ g1.val = KthSmallest(w, r1)
     /\ g2.inner.panic = "none"
     /\ g2.val = KthSmallest(w, r2)

\* C24: traverse_to_index(target), for 0 <= target <= n_element and from any
\* well-formed cursor position, in either direction and over any distance,
\* ends with current_index = target and m the active position of rank target
\* (tail when target = n_element) and leaves the list unchanged; so a
\* BlockUnion with one side empty returns the rank-th smallest element of the
\* other side for ranks asked for in any order.
C24_TraverseToIndex ==
  (pc = "ops" /\ in_order /\ CursorInRange(OpsBlock)) =>
     \A b \in {OpsBlock} :
        /\ \A t \in 0..b.n_element : TraverseReaches(b, ActiveSet, t)
        /\ \A r1, r2 \in 0..(b.n_element - 1) :
              /\ TwoGets(BlockUnionNew(b, EmptyBlock, b.n_element),
                         ActiveValues, r1, r2)
              /\ TwoGets(BlockUnionNew(EmptyBlock, b, b.n_element),
                         ActiveValues, r1, r2)

\* a state where C24's case happens: the cursor of a block of three different
\* values, all active, is past-end; traverse_to_index(0) walks back three
\* positions, and the union with an empty block returns rank 2 and then rank 0
C24_Witness ==
  /\ pc = "ops"
  /\ in_order
  /\ OpsBlock.n_element = 3
  /\ OpsBlock.current_index = 3
  /\ OpsBlock.m = OpsBlock.tail
  /\ Cardinality({slice[x] : x \in DOMAIN slice}) = 3
  /\ traverse_to_index(OpsBlock, 0).m = At(OpsBlock.next, OpsBlock.tail)
  /\ UnionGet(UnionGet(BlockUnionNew(OpsBlock, EmptyBlock, 3), 2).inner, 0).val
       < UnionGet(BlockUnionNew(OpsBlock, EmptyBlock, 3), 2).val

\* the active positions of block b that precede its cursor in (value,
\* position) order: all of them when the cursor is past-end
BeforeCursor(b, act) ==
  IF b.m = b.tail THEN act
  ELSE {y \in act : y # b.m /\ PairLeq(b.alpha, y, b.m)}

\* peek of block b, whose active positions are act, is as C25 says
PeekAtCursor(b, act) ==
  /\ peek(b) = <<>> <=> b.m = b.tail
  /\ b.m # b.tail =>
       /\ peek(b) = <<At(b.alpha, b.m)>>
       /\ b.m = PositionOfRank(b.alpha, act, b.current_index)

\* peek_previous of block b, whose active positions are act, is as C25 says
PeekBeforeCursor(b, act) ==
  \A pp \in {peek_previous(b)} :
     /\ pp = <<>> <=> BeforeCursor(b, act) = {}
     /\ pp # <<>> =>
          pp[1] = At(b.alpha, PositionOfRank(b.alpha, act, b.current_index - 1))
     /\ (b.m = b.tail /\ act # {}) =>
          /\ pp # <<>>
          /\ \A y \in act : At(b.alpha, y) <= pp[1]

\* C25: peek() returns None exactly when the cursor is past-end (m = tail)
\* and otherwise the value at m; peek_previous() returns the value of the
\* active element of rank current_index - 1, and None exactly when no active
\* element precedes the cursor; when m = tail and the block is non-empty,
\* peek_previous() returns the largest active element.
C25_PeekAndPeekPrevious ==
  (pc = "ops" /\ in_order) =>
     /\ PeekAtCursor(OpsBlock, ActiveSet)
     /\ PeekBeforeCursor(OpsBlock, ActiveSet)

\* a state where C25's case happens: two of three positions are active, the
\* cursor is past-end, peek() is None and peek_previous() the larger of two
\* different active values
C25_Witness ==
  /\ pc = "ops"
  /\ in_order
  /\ Len(slice) = 3
  /\ OpsBlock.n_element = 2
  /\ OpsBlock.m = OpsBlock.tail
  /\ peek(OpsBlock) = <<>>
  /\ peek_previous(OpsBlock) # <<>>
  /\ \E y \in ActiveSet : At(slice, y) < peek_previous(OpsBlock)[1]

\* the union of the runs of BlockUnion calls, and its active positions
UoUnion == ScnUnion

UoLeftActive == Range(blk_i, k_eff)

UoRightActive == Range(0, blk_i)

\* both blocks of the union of the runs hold an element
UoBothNonEmpty == UoReady /\ 0 < blk_i /\ blk_i < k_eff

\* the sum of the two current_index of union u
CursorSum(u) == u.block_left.current_index + u.block_right.current_index

\* both cursors of union u are where reset puts them
JustReset(u) ==
  /\ u.block_left.current_index = 0
  /\ u.block_left.m = At(u.block_left.next, u.block_left.tail)
  /\ u.block_right.current_index = 0
  /\ u.block_right.m = At(u.block_right.next, u.block_right.tail)

\* the values under the two cursors of union u are there and equal
TieAt(u) ==
  /\ peek(u.block_left) # <<>>
  /\ peek(u.block_right) # <<>>
  /\ peek(u.block_left) = peek(u.block_right)

\* the loop of get(i), entered at union u with equal values under the
\* cursors, returns the left element when s = i and otherwise goes on from u
\* with the left cursor one position ahead
LeftWinsTie(u, i) ==
  \A g \in {UnionGetLoop(u, i)} :
     IF CursorSum(u) = i
     THEN g.inner = u /\ g.val = peek(u.block_left)[1]
     ELSE g = UnionGetLoop(
            [u EXCEPT !.block_left =
               [u.block_left EXCEPT !.current_index = u.block_left.current_index + 1,
                                    !.m = At(u.block_left.next, u.block_left.m)]], i)

\* the elements before the cursors of union u are a prefix of the merged
\* order in which a left element precedes a right element of the same value:
\* left (right) holds the active positions of the left (right) block
LeftFirstPrefix(u, left, right) ==
  \A y \in left, z \in right :
     \A ry \in {RankOf(u.block_left.alpha, left, y)},
        rz \in {RankOf(u.block_right.alpha, right, z)} :
        /\ (ry >= u.block_left.current_index /\ rz < u.block_right.current_index)
              => At(u.block_right.alpha, z) < At(u.block_left.alpha, y)
        /\ (ry < u.block_left.current_index /\ rz >= u.block_right.current_index)
              => At(u.block_left.alpha, y) <= At(u.block_right.alpha, z)

\* C26: in BlockUnion::get with both blocks non-empty, when the values under
\* the left and right cursors are equal the left element is the candidate:
\* it is returned if s = rank and otherwise the left cursor, not the right
\* one, is advanced; so among equal values every active left element
\* precedes every active right element in the merged order.
C26_LeftWinsOnEqual ==
  UoBothNonEmpty =>
    /\ \A u \in {UnionReverse(UoUnion)} :
          TieAt(u) => \A i \in CursorSum(u)..(k_eff - 1) : LeftWinsTie(u, i)
    /\ (pc = "uo_ready" /\ JustReset(UoUnion)) =>
         \A r \in 0..(k_eff - 1) :
         \A g \in {UnionGet(UoUnion, r)} :
            /\ g.inner.panic = "none"
            /\ CursorSum(g.inner) = r
            /\ LeftFirstPrefix(g.inner, UoLeftActive, UoRightActive)

\* a state where C26's case happens: the left block holds two elements and
\* the right block one, all of one value, and both cursors are where reset
\* puts them; get(1) leaves the left cursor one position ahead and the right
\* cursor at its start
C26_Witness ==
  /\ UoBothNonEmpty
  /\ k_eff = 3
  /\ blk_i = 1
  /\ \A x \in DOMAIN slice : slice[x] = 0
  /\ pc = "uo_ready"
  /\ JustReset(UoUnion)
  /\ TieAt(UoUnion)
  /\ UnionGet(UoUnion, 1).inner.block_left.current_index = 1
  /\ UnionGet(UoUnion, 1).inner.block_right.current_index = 0

\* the element that the merge of union u takes next: the smaller of the
\* values under the two cursors, the left one when they are equal
Candidate(u) ==
  LET left == peek(u.block_left)
      right == peek(u.block_right)
  IN IF right = <<>> THEN left
     ELSE IF left = <<>> THEN right
     ELSE IF left[1] <= right[1] THEN left
     ELSE right

\* C27: whenever BlockUnion::get(rank) returns through the merge loop (both
\* blocks non-empty), the chosen cursor has not been advanced past the
\* element returned: left.current_index + right.current_index = rank, and
\* the cursor of the side that supplied the result is on the value returned.
C27_ReturnWithoutAdvance ==
  (pc = "uo_got" /\ 0 < blk_i /\ blk_i < k_eff) =>
     /\ CursorSum(UoUnion) = rank
     /\ vec_out # <<>>
     /\ vec_out = Candidate(UoUnion)

\* a state where C27's case has happened: get(1) has returned through the
\* loop with the right cursor, one position ahead, on the value returned and
\* the left cursor on a larger one
C27_Witness ==
  /\ pc = "uo_got"
  /\ k_eff = 3
  /\ blk_i = 2
  /\ rank = 1
  /\ UoUnion.block_right.current_index = 1
  /\ peek(UoUnion.block_right) = vec_out
  /\ peek(UoUnion.block_left) # <<>>
  /\ peek(UoUnion.block_left)[1] > vec_out[1]

\* block b with its cursor one position back
OneBack(b) ==
  [b EXCEPT !.current_index = b.current_index - 1, !.m = At(b.prev, b.m)]

\* reverse of union u moves the cursor that C28 names, one position back
ReverseMovesOne(u) ==
  \A v \in {UnionReverse(u)} :
  \A lp \in {peek_previous(u.block_left)}, rp \in {peek_previous(u.block_right)} :
     /\ v.panic = "none"
     /\ (lp # <<>> /\ (rp = <<>> \/ lp[1] > rp[1])) =>
           /\ u.block_left.current_index > 0
           /\ v.block_left = OneBack(u.block_left)
           /\ v.block_right = u.block_right
     /\ (rp # <<>> /\ (lp = <<>> \/ rp[1] >= lp[1])) =>
           /\ u.block_right.current_index > 0
           /\ v.block_right = OneBack(u.block_right)
           /\ v.block_left = u.block_left
     /\ (lp = <<>> /\ rp = <<>>) => v = u
     /\ CursorSum(u) - CursorSum(v) \in {0, 1}

\* C28: BlockUnion::reverse moves at most one cursor, by exactly one position
\* backwards: the left cursor if only the left block has a previous element
\* or the left previous value is strictly greater than the right one; the
\* right cursor if only the right block has a previous element or the right
\* previous value is greater than or equal to the left one; neither cursor if
\* neither has a previous element.  left.current_index + right.current_index
\* goes down by at most 1.
C28_UnionReverseOneStep == UoReady => ReverseMovesOne(UoUnion)

\* a state where C28's case happens: both cursors have a previous element of
\* the same value, and reverse steps the right cursor back
C28_Witness ==
  /\ UoReady
  /\ peek_previous(UoUnion.block_left) # <<>>
  /\ peek_previous(UoUnion.block_left) = peek_previous(UoUnion.block_right)
  /\ UnionReverse(UoUnion).block_right.current_index
       = UoUnion.block_right.current_index - 1
  /\ UnionReverse(UoUnion).block_left = UoUnion.block_left

\* get(r1), get(r2) and get(r3) of union u, one after the other, return the
\* values of rank r1, r2 and r3 among the values w
ThreeGets(u, w, r1, r2, r3) ==
  \A g1 \in {UnionGet(u, r1)} :
  \A g2 \in {UnionGet(g1.inner, r2)} :
  \A g3 \in {UnionGet(g2.inner, r3)} :
     /\ g1.inner.panic = "none"
     /\ g1.val = KthSmallest(w, r1)
     /\ g2.inner.panic = "none"
     /\ g2.val = KthSmallest(w, r2)
     /\ g3.inner.panic = "none"
     /\ g3.val = KthSmallest(w, r3)

\* C29: for a BlockUnion over two well-formed blocks whose cursors have both
\* just been reset (current_index 0 in each), get(r) for any 0 <= r <
\* left.len + right.len returns the r-th smallest (0-based) of the active
\* left and right values, and so does every following get with a rank not
\* smaller than the one before when no set_state is made in between.
C29_GetAfterReset ==
  (pc = "uo_ready" /\ JustReset(UoUnion)) =>
    \A r1 \in 0..(k_eff - 1) :
    \A r2 \in r1..(k_eff - 1) :
    \A r3 \in r2..(k_eff - 1) :
       ThreeGets(UoUnion, ScnUnionValues(blk_i), r1, r2, r3)

\* a state where C29's case has happened: both cursors of a union of a left
\* block of two elements and a right block of one are where reset puts them,
\* and the three ranks hold three different values
C29_Witness ==
  /\ pc = "uo_ready"
  /\ k_eff = 3
  /\ blk_i = 1
  /\ JustReset(UoUnion)
  /\ UnionGet(UoUnion, 0).val < UnionGet(UoUnion, 1).val
  /\ UnionGet(UoUnion, 1).val < UnionGet(UoUnion, 2).val

\* C30: every call BlockUnion::get(rank) with 0 <= rank < left.len +
\* right.len terminates, and it does so after at most rank + 1 cursor
\* advances (left.advance plus right.advance calls) within that call.
C30_GetAdvancesBounded ==
  UoReady =>
    \A r \in 0..(k_eff - 1), debug \in BOOLEAN :
       GetAdvances(UoUnion, r, debug) <= r + 1

\* the result of the inner loop's iteration at hand: set_state(j) on a new
\* union, then the gets of QuantileUpdate::quantile
DriverQuantile == Quantile(DriverAfterSetState, is_int, quantile)

\* C31: in every run of rolling_quantile on valid input no BlockUnion::get
\* fails its assertion i >= left.current_index + right.current_index after
\* the reverse that re-anchors the union, and none reaches the panic!() arm
\* where both cursors are at the end; a get(lo) that follows the get(hi) of
\* the iteration before, with one set_state in between, included.
C31_GetAssertionHolds ==
  (ValidCall /\ pc = "slide" /\ blk_j < Len(block_right.alpha)) =>
     DriverQuantile.inner.panic \notin {"assert", "panic"}

\* C32: the two buffer triples of rolling_quantile are never shared: the
\* left and the right block borrow different triples, at every block b of the
\* sliding phase the new right block is built on the triple that the left
\* block does not use (the right triple for odd b, the left one for even b),
\* and Block::new and unwind of the right block leave pi, prev and next of the
\* live left block as they are.
C32_TriplesNotShared ==
  /\ pc # "start" => block_left.buf # block_right.buf
  /\ pc = "slide" =>
       block_right.buf = (IF blk_i % 2 = 1 THEN "right" ELSE "left")
  /\ (pc = "blocks" /\ MoreBlocks) =>
       \A id \in {TripleOf(blk_i)} :
       \A br \in {unwind(NewOn(BlockAlpha, bufs, id))} :
          /\ id # block_left.buf
          /\ View(block_left, Store(bufs, id, br)) = View(block_left, bufs)

\* a state where C32's case has happened: the right block of an even block
\* of the sliding phase has been built and unwound on the left triple, which
\* the first left block used, while the live left block is on the right one
C32_Witness ==
  /\ pc = "slide"
  /\ blk_i = 2
  /\ blk_j = 0
  /\ block_right.buf = "left"
  /\ block_left.buf = "right"
  /\ block_left.n_element = k_eff
  /\ k_eff >= 2

\* the positions that the next-chain of block b holds
Chained(b) == CycleSet(TailPath(b), b.tail)

\* C33: at the start of every iteration of the outer loop of the sliding
\* phase the left block holds exactly k active elements, so the assertion
\* block_left.n_element == k holds: after all positions of a full right block
\* have been moved by set_state the former left block is empty and the former
\* right block is full, and the swap has made the full block the left block.
C33_LeftBlockFull ==
  /\ (pc = "blocks" /\ blk_i < n_blocks + 1) =>
       /\ block_left.n_element = k_eff
       /\ Chained(View(block_left, bufs)) = Range(0, k_eff)
  /\ (pc = "blocks" /\ blk_i > 1 /\ Len(block_left.alpha) = k_eff) =>
       /\ block_left.alpha = Slice(slice, (blk_i - 1) * k_eff, blk_i * k_eff)
       /\ block_left.n_element = k_eff
       /\ Chained(View(block_left, bufs)) = Range(0, k_eff)
       /\ block_right.alpha = Slice(slice, (blk_i - 2) * k_eff, (blk_i - 1) * k_eff)
       /\ block_right.n_element = 0
       /\ Chained(View(block_right, bufs)) = {}

\* a state where C33's case has happened: the second iteration of the outer
\* loop starts after the two positions of a full right block have been moved
\* and the blocks swapped, and a third block is still to come
C33_Witness ==
  /\ pc = "blocks"
  /\ blk_i = 2
  /\ k_eff = 2
  /\ blk_j = 2
  /\ MoreBlocks
  /\ block_left.n_element = 2
  /\ block_right.n_element = 0

RECURSIVE DeleteLinks(_, _)
\* block b after delete_link(0), ..., delete_link(n - 1)
DeleteLinks(b, n) ==
  IF n = 0 THEN b ELSE delete_link(DeleteLinks(b, n - 1), n - 1)

RECURSIVE UndeleteLinks(_, _)
\* block b after undelete_link(0), ..., undelete_link(n - 1)
UndeleteLinks(b, n) ==
  IF n = 0 THEN b ELSE undelete_link(UndeleteLinks(b, n - 1), n - 1)

\* block c has prev and next of block b and holds n elements
LinksOf(c, b, n) == c.prev = b.prev /\ c.next = b.next /\ c.n_element = n

\* block c is block b but for the cursor
CursorOnly(b, after) ==
  \A c \in {after} :
     /\ c.prev = b.prev
     /\ c.next = b.next
     /\ c.n_element = b.n_element
     /\ c.alpha = b.alpha
     /\ c.pi = b.pi
     /\ c.tail = b.tail
     /\ c.k = b.k

\* both blocks of union v are those of union u but for the cursors
UnionCursorOnly(u, after) ==
  \A v \in {after} :
     /\ CursorOnly(u.block_left, v.block_left)
     /\ CursorOnly(u.block_right, v.block_right)

\* C34: BlockUnion::get and BlockUnion::reverse, and traverse_to_index,
\* advance, reverse and reset of Block change the cursors (m, current_index)
\* only: prev, next, n_element and the active set of both blocks are as
\* before.  After any gets and resets the links of the two blocks are those
\* that init_links over pi, unwind and the link operations of the set_state
\* calls alone make, and one more of each operation leaves them so.
C34_CursorOpsFrame ==
  UoReady =>
    \A u \in {UoUnion} :
       /\ \A made \in {DeleteLinks(init_links(u.block_left), blk_i)} :
             LinksOf(u.block_left, made, k_eff - blk_i)
       /\ \A made \in {UndeleteLinks(UnwindFrom(init_links(u.block_right), k_eff),
                                     blk_i)} :
             LinksOf(u.block_right, made, blk_i)
       /\ Chained(u.block_left) = UoLeftActive
       /\ Chained(u.block_right) = UoRightActive
       /\ UnionCursorOnly(u, UnionReverse(u))
       /\ \A r \in 0..(k_eff - 1) : UnionCursorOnly(u, UnionGet(u, r).inner)
       /\ \A b \in {u.block_left, u.block_right} :
             /\ CursorOnly(b, advance(b))
             /\ CursorOnly(b, reverse(b))
             /\ CursorOnly(b, reset(b))
             /\ \A x \in 0..b.n_element : CursorOnly(b, traverse_to_index(b, x))

\* a state where C34's case has happened: a get of rank 1 has moved the
\* cursors of a union of a left block of two elements and a right block of
\* one, and has left both of them off their first elements
C34_Witness ==
  /\ pc = "uo_got"
  /\ k_eff = 3
  /\ blk_i = 1
  /\ rank = 1
  /\ vec_out # <<>>
  /\ CursorSum(UoUnion) = 1
  /\ ~JustReset(UoUnion)

\* delete_link(i) on block b writes next[prev[i]] and prev[next[i]] and
\* nothing else
DeleteLinkFrame(b, i) ==
  \A c \in {delete_link(b, i)} :
  \A p \in {At(b.prev, i)}, n \in {At(b.next, i)} :
     /\ At(c.next, p) = n
     /\ At(c.prev, n) = p
     /\ At(c.prev, i) = p
     /\ At(c.next, i) = n
     /\ \A x \in 0..b.k :
           /\ x # p => At(c.next, x) = At(b.next, x)
           /\ x # n => At(c.prev, x) = At(b.prev, x)
     /\ Len(c.prev) = Len(b.prev)
     /\ Len(c.next) = Len(b.next)
     /\ [c EXCEPT !.prev = b.prev, !.next = b.next] = b

\* the active position next before position i of alpha in ascending (value,
\* position) order among the positions act, tail if there is none
NeighbourBefore(alpha, act, i, tail) ==
  LET low == {y \in act \ {i} : PairLeq(alpha, y, i)}
  IN IF low = {} THEN tail
     ELSE CHOOSE y \in low : \A z \in low : PairLeq(alpha, z, y)

\* the active position next after position i, tail if there is none
NeighbourAfter(alpha, act, i, tail) ==
  LET high == {y \in act \ {i} : PairLeq(alpha, i, y)}
  IN IF high = {} THEN tail
     ELSE CHOOSE y \in high : \A z \in high : PairLeq(alpha, y, z)

\* the positions active when the x-th of the inactive positions was removed
ActiveAtRemoval(x) ==
  {y \in 0..(Len(slice) - 1) : \A z \in 1..(x - 1) : removed[z] # y}

\* C35: delete_link(i) writes only next[prev[i]] and prev[next[i]]: prev[i]
\* and next[i] of the removed position keep their values, no other entry of
\* prev or next changes, and unwind and delete (the delete of set_state
\* included) never clear them: every inactive position still holds the two
\* neighbours it had when it was removed.
C35_DeleteLinkKeepsOwnEntries ==
  OpsReady =>
    \A b \in {OpsBlock} :
       /\ \A i \in 0..(Len(slice) - 1) : DeleteLinkFrame(b, i)
       /\ in_order =>
            \A x \in DOMAIN removed :
            \A act \in {ActiveAtRemoval(x)} :
               /\ At(b.prev, removed[x]) =
                    NeighbourBefore(b.alpha, act, removed[x], b.tail)
               /\ At(b.next, removed[x]) =
                    NeighbourAfter(b.alpha, act, removed[x], b.tail)

\* a state where C35's case has happened: two positions of a block of three
\* have been deleted one by one, and the one deleted first had two active
\* neighbours then
C35_Witness ==
  /\ pc = "ops"
  /\ in_order
  /\ Len(slice) = 3
  /\ Len(removed) = 2
  /\ removed[1] < removed[2]
  /\ At(OpsBlock.prev, removed[1]) \in 0..2
  /\ At(OpsBlock.next, removed[1]) \in 0..2

\* ------------------------------------------------------------ time_ranges
\* time_ranges(s, interval, closed) of polars-plan, for two inputs of dtype
\* Time, on which the casts of lines 39-40 and 100-101 change no value.  An
\* Option<i64> is <<>> for None and <<v>> for Some(v); a row of the list
\* builder is <<>> for a null row and <<r>> for the slice r.
MaxSeries == 3

\* the times of the inputs, in nanoseconds
TimeValues == {0, 2}

OptionTimes == {<<>>} \cup {<<v>> : v \in TimeValues}

\* polars_time::time_range_impl("", start, end, interval, closed) as a value
\* that names the call it comes from.  The function belongs to another crate:
\* the model takes every call to return Ok, so the ? of line 92 never returns
\* from time_ranges_impl.
time_range_impl(start, end) == [range_start |-> start, range_end |-> end]

\* std::iter::zip
Zip(a, b) == [x \in 1..Min(Len(a), Len(b)) |-> <<a[x], b[x]>>]

\* a repeat that yields its value once
RepeatOnce(v, n) == [x \in 1..Min(n, 1) |-> v]

\* std::iter::repeat(v).take(n)
Repeat(v, n) == [x \in 1..n |-> v]

\* a PolarsResult: Ok(series of rows), or the ComputeError of lines 68-72
OkSeries(rows) == [kind |-> "ok", rows |-> rows, len_start |-> 0, len_end |-> 0]

LengthError(len_start, len_end) ==
  [kind |-> "lengths_do_not_match", rows |-> <<>>,
   len_start |-> len_start, len_end |-> len_end]

\* Series::new_from_index(0, length)
new_from_index(series, length) == Repeat(At(series, 0), length)

\* utils.rs, broadcast_scalar_inputs(start, end): the two series made of one
\* length, or the ComputeError
broadcast_scalar_inputs(start, end) ==
  IF Len(start) = Len(end)
  THEN [ok |-> TRUE, start |-> start, end_matched |-> end, err |-> NoResult]
  ELSE IF Len(start) = 1
  THEN [ok |-> TRUE, start |-> new_from_index(start, Len(end)), end_matched |-> end,
        err |-> NoResult]
  ELSE IF Len(end) = 1
  THEN [ok |-> TRUE, start |-> start, end_matched |-> new_from_index(end, Len(start)),
        err |-> NoResult]
  ELSE [ok |-> FALSE, start |-> <<>>, end_matched |-> <<>>,
        err |-> LengthError(Len(start), Len(end))]

\* the calls of time_ranges on two inputs of 0 to MaxSeries values each
InitTimeRanges ==
  /\ start_ca \in SeqsOf(OptionTimes, 0, MaxSeries)
  /\ end_ca \in SeqsOf(OptionTimes, 0, MaxSeries)
  /\ start_end_iter = <<>>
  /\ builder = <<>>
  /\ range_out = NoResult
  /\ pc = "tr_call"
  /\ slice = <<>>
  /\ k_arg = 0
  /\ quantile = 0
  /\ is_int = TRUE
  /\ k_eff = 0
  /\ n_blocks = 0
  /\ bufs = [left |-> EmptyTriple, right |-> EmptyTriple]
  /\ block_left = NoBlock
  /\ block_right = NoBlock
  /\ vec_out = <<>>
  /\ blk_i = 0
  /\ blk_j = 0
  /\ panic = "none"
  /\ rank = 0
  /\ med_out = <<>>
  /\ med_panic = "none"
  /\ removed = <<>>
  /\ in_order = TRUE

\* time_ranges uses none of the variables of the rolling kernels
RangeFrame ==
  UNCHANGED <<slice, k_arg, quantile, is_int, k_eff, n_blocks, bufs, block_left,
              block_right, vec_out, blk_i, blk_j, panic, rank, med_vars, ops_vars>>

\* lines 50-74: the match on the two lengths, up to the call of
\* time_ranges_impl with its new builder, or the return of the error
TimeRangesMatch ==
  /\ pc = "tr_call"
  /\ \E len_start \in {Len(start_ca)}, len_end \in {Len(end_ca)} :
        IF len_start = len_end
        THEN /\ start_end_iter' = Zip(start_ca, end_ca)
             /\ pc' = "tr_impl"
             /\ UNCHANGED range_out
        ELSE IF len_start = 1
        THEN /\ start_end_iter' = Zip(Repeat(At(start_ca, 0), len_end), end_ca)
             /\ pc' = "tr_impl"
             /\ UNCHANGED range_out
        ELSE IF len_end = 1
        THEN /\ start_end_iter' = Zip(start_ca, Repeat(At(end_ca, 0), len_start))
             /\ pc' = "tr_impl"
             /\ UNCHANGED range_out
        ELSE /\ range_out' = LengthError(len_start, len_end)
             /\ pc' = "tr_done"
             /\ UNCHANGED start_end_iter
  /\ builder' = <<>>
  /\ UNCHANGED <<start_ca, end_ca>>
  /\ RangeFrame

\* lines 89-97: one iteration of the loop of time_ranges_impl
ImplAppend ==
  /\ pc = "tr_impl"
  /\ start_end_iter # <<>>
  /\ \E start \in {Head(start_end_iter)[1]}, end_opt \in {Head(start_end_iter)[2]} :
        IF start # <<>> /\ end_opt # <<>>
        THEN builder' = Append(builder, <<time_range_impl(start[1], end_opt[1])>>)
        ELSE builder' = Append(builder, <<>>)
  /\ start_end_iter' = Tail(start_end_iter)
  /\ UNCHANGED <<start_ca, end_ca, range_out, pc>>
  /\ RangeFrame

\* lines 98-101: the loop has ended, the list is returned
ImplFinish ==
  /\ pc = "tr_impl"
  /\ start_end_iter = <<>>
  /\ range_out' = OkSeries(builder)
  /\ pc' = "tr_done"
  /\ UNCHANGED <<start_ca, end_ca, start_end_iter, builder>>
  /\ RangeFrame

NextTimeRanges == TimeRangesMatch \/ ImplAppend \/ ImplFinish

SpecTimeRanges == InitTimeRanges /\ [][NextTimeRanges]_vars

\* the row that the pair of start and end gives: null when one of them is
\* null, and the slice of the range from start to end when both are there
IsRowOf(row, start, end_opt) ==
  IF start = <<>> \/ end_opt = <<>> THEN row = <<>>
  ELSE /\ row # <<>>
       /\ row[1].range_start = start[1]
       /\ row[1].range_end = end_opt[1]

====
